---- MODULE Spec2Model ----
(***************************************************************************)
(* Model of the portal controller of stimulus-typescript                   *)
(* (src/src/portal-controller.ts): the identifier registry, the mutation   *)
(* observer, the target index, the action index with its forwarding        *)
(* handlers, and the accessor patches.                                     *)
(*                                                                         *)
(* Every method of the controller is an operator from a state record to a  *)
(* state record; the record has one field per variable.  An action applies *)
(* one public method, one observer delivery, one timer or one change made  *)
(* to the document by the page's author.                                   *)
(***************************************************************************)
EXTENDS Naturals, Sequences, FiniteSets, TLC

(***************************************************************************)
(* The universe of the model.                                              *)
(***************************************************************************)
\* Elements that may be put in, or taken out of, the relay's subtree, in
\* document order (querySelectorAll returns them in this order).
ElemOrder == <<"e1", "e2">>
Elems == {ElemOrder[i] : i \in 1..Len(ElemOrder)}

\* Identifiers of the component instances that may be synced.
Ids == {"a", "b"}
\* An identifier that no synced instance has: its directives are never owned.
ForeignIds == {"z"}
\* this.identifier of the relay itself.
PortalId == "portal"

\* The live component instances, in the order a Set of them is iterated.
CtrlOrder == <<"c1", "c2", "c3">>
Ctrls == {CtrlOrder[i] : i \in 1..Len(CtrlOrder)}
\* controller.identifier
IdOf == [c \in Ctrls |-> IF c = "c3" THEN "b" ELSE "a"]

\* Target names, and the absent attribute (getAttribute returns null).
Names == {"content", "side-bar"}
NoName == "null"
\* (controller.constructor as any).targets
DeclaredTargets == [c \in Ctrls |-> IF c = "c3" THEN {} ELSE Names]

\* Methods and events the action directives name.
Methods == {"x", "y"}
Events == {"click", "keyup"}

\* The pending records an author's changes may leave undelivered.
MaxPending == 2
\* The tokens the two action attributes of an element may hold together when
\* the author rewrites the action attribute.
MaxTokens == 2

proxyActionPrefix == "__proxyAction__"
batchSize == 5

(***************************************************************************)
(* State.                                                                  *)
(***************************************************************************)
VARIABLES
    \* the document
    inDoc,          \* the elements that are descendants of the relay's element
    tattr,          \* tattr[e][id]: value of data-<id>-target on e, or NoName
    vattr,          \* vattr[e]: tokens of the action attribute of e (<<>>: absent)
    pattr,          \* pattr[e]: tokens of the "-portalled" attribute of e
    dattr,          \* dattr[e]: the "-param" attributes of e, in their order
    \* the relay (the fields of the controller)
    isConnected,
    observer,       \* "null", "off" (created or disconnected), "on" (observing)
    filter,         \* attributeFilter of the observing observer
    pending,        \* the records queued for the observer and not yet delivered
    identifiers,    \* a Set in insertion order
    searchedIdentifiersForTargets,
    searchedIdentifiersForActions,
    controllers,
    targetsByController,
    targetsByIdentifier,
    targetsByTargetName,
    controllerOriginalMethods,
    actionToElementsMap,
    actionToElementsKeys,   \* the keys actionToElementsMap has
    elementToActionsMap,
    identifierToActionElementsMap,
    actionElementToIdentifiersMap,
    proxyMethods,   \* the names n with typeof this[n] === 'function'
    throttleT,      \* the throttle of searchTargets
    throttleA,      \* the throttle of searchActions
    \* the component instances
    patched,        \* the instances whose target accessors are the relay's
    throwing,       \* the instances whose methods throw when they are called
    portalOutlets,  \* portalOutlets[c]: the Set of relays the mixin of c holds
    connectedOutlets,   \* the relays the framework has connected to c as outlets
    other,          \* the registry of a second relay on the page
    lookup,         \* the clock, the application and the pending lookups (utils)
    \* what the last step called on the instances, in order
    hooks,
    eventParams,    \* what the last step assigned to event.params, in order
    calls,          \* the sync and unsync calls the last step's mixin made
    ran,            \* how often the last step ran each of the two sweeps
    errors,         \* how many errors the last step caught and logged
    thrown,         \* whether the last step ended by a thrown error
    \* history: the target hooks every instance has received so far
    told

vars == <<inDoc, tattr, vattr, pattr, dattr, isConnected, observer, filter, pending,
          identifiers, searchedIdentifiersForTargets,
          searchedIdentifiersForActions, controllers, targetsByController,
          targetsByIdentifier, targetsByTargetName, controllerOriginalMethods,
          actionToElementsMap, actionToElementsKeys, elementToActionsMap,
          identifierToActionElementsMap, actionElementToIdentifiersMap,
          proxyMethods, throttleT, throttleA, patched, throwing,
          portalOutlets, connectedOutlets, other, lookup, hooks, eventParams,
          calls, ran,
          errors, thrown, told>>

\* The state as one record, the argument and the result of every method.
Cur ==
    [inDoc |-> inDoc, tattr |-> tattr, vattr |-> vattr, pattr |-> pattr,
     dattr |-> dattr,
     isConnected |-> isConnected, observer |-> observer, filter |-> filter,
     pending |-> pending, identifiers |-> identifiers,
     searchedIdentifiersForTargets |-> searchedIdentifiersForTargets,
     searchedIdentifiersForActions |-> searchedIdentifiersForActions,
     controllers |-> controllers,
     targetsByController |-> targetsByController,
     targetsByIdentifier |-> targetsByIdentifier,
     targetsByTargetName |-> targetsByTargetName,
     controllerOriginalMethods |-> controllerOriginalMethods,
     actionToElementsMap |-> actionToElementsMap,
     actionToElementsKeys |-> actionToElementsKeys,
     elementToActionsMap |-> elementToActionsMap,
     identifierToActionElementsMap |-> identifierToActionElementsMap,
     actionElementToIdentifiersMap |-> actionElementToIdentifiersMap,
     proxyMethods |-> proxyMethods, throttleT |-> throttleT,
     throttleA |-> throttleA, patched |-> patched, throwing |-> throwing,
     portalOutlets |-> portalOutlets, connectedOutlets |-> connectedOutlets,
     other |-> other, lookup |-> lookup, calls |-> <<>>,
     ran |-> [targets |-> 0, actions |-> 0],
     hooks |-> <<>>, eventParams |-> <<>>, errors |-> 0, thrown |-> FALSE,
     told |-> told]

(***************************************************************************)
(* Helpers.                                                                *)
(***************************************************************************)
SeqToSet(s) == {s[i] : i \in 1..Len(s)}
\* The members of a set, in some fixed order.
RECURSIVE SetToSeq(_)
SetToSeq(S) ==
    IF S = {} THEN <<>>
    ELSE LET x == CHOOSE y \in S : TRUE IN <<x>> \o SetToSeq(S \ {x})
InSeq(x, s) == \E i \in 1..Len(s) : s[i] = x
\* A set of elements in document order, a set of instances in iteration order.
ElemSeq(S) == SelectSeq(ElemOrder, LAMBDA e : e \in S)
CtrlSeq(S) == SelectSeq(CtrlOrder, LAMBDA c : c \in S)
\* Set.delete followed by a later Set.add keeps the insertion order of the rest.
SeqWithout(s, x) == SelectSeq(s, LAMBDA y : y # x)

\* camelCase of src/unnamed/part_001, on the names of the model:
\* "-x" becomes "X", a leading capital becomes lower case.
camelCase(value) ==
    CASE value = "side-bar" -> "sideBar"
      [] value = "item-id" -> "itemId"
      [] value = "item_id" -> "itemId"
      [] OTHER -> value

getTargetConnectedMethodName(targetName) ==
    camelCase(targetName) \o "TargetConnected"

getTargetDisconnectedMethodName(targetName) ==
    camelCase(targetName) \o "TargetDisconnected"

getTargetAttributeName(identifier) == "data-" \o identifier \o "-target"

getActionAttributeName == "data-action"

getPortalledActionAttributeName == getActionAttributeName \o "-portalled"

getProxyActionName(action) == proxyActionPrefix \o action

\* controller.context.invokeControllerMethod(method, element or event): the
\* instance's method runs, and throws when the instance is a throwing one.
invokeControllerMethod(r, c, method, e) ==
    [r EXCEPT !.hooks = Append(@, [controller |-> c, method |-> method,
                                   element |-> e]),
              !.thrown = @ \/ c \in r.throwing]

\* The call without its try and catch: the error leaves the loop.
InvokeUncaught(r, c, method, e) == invokeControllerMethod(r, c, method, e)

\* try { invokeControllerMethod(...) } catch (e) { console.error(e) }
Invoke(r, c, method, e) ==
    LET r1 == invokeControllerMethod(r, c, method, e)
    IN IF r1.thrown THEN [r1 EXCEPT !.thrown = FALSE, !.errors = @ + 1]
       ELSE r1

(***************************************************************************)
(* The observer.                                                           *)
(***************************************************************************)
\* A record of the observer.  type is "added" or "removed" (a childList
\* record with the node in addedNodes or in removedNodes) or "attributes".
ChildRecord(type, e) ==
    [type |-> type, target |-> e, attributeName |-> "", oldName |-> NoName,
     oldTokens |-> <<>>]
TargetAttrRecord(e, identifier, old) ==
    [type |-> "attributes", target |-> e,
     attributeName |-> getTargetAttributeName(identifier), oldName |-> old,
     oldTokens |-> <<>>]
ActionAttrRecord(e, old) ==
    [type |-> "attributes", target |-> e,
     attributeName |-> getActionAttributeName, oldName |-> NoName,
     oldTokens |-> old]

\* The observer queues a record when it observes, the node is in the subtree
\* and, for an attribute, the attribute is in the filter.
Observes(r, rec) ==
    /\ r.observer = "on"
    /\ rec.type = "attributes" =>
          rec.target \in r.inDoc /\ rec.attributeName \in r.filter
Record(r, rec) ==
    IF Observes(r, rec) THEN [r EXCEPT !.pending = Append(@, rec)] ELSE r

disconnectObserver(r) ==
    IF r.observer = "null" THEN r
    ELSE [r EXCEPT !.observer = "off", !.filter = {}, !.pending = <<>>]

reinitializeObserver(r) ==
    [disconnectObserver(r) EXCEPT !.observer = "off"]

connectObserver(r) ==
    IF r.observer = "null" THEN r
    ELSE [r EXCEPT !.observer = "on",
                   !.filter = {getActionAttributeName} \cup
                       {getTargetAttributeName(r.identifiers[i]) :
                            i \in 1..Len(r.identifiers)}]

(***************************************************************************)
(* The target index.                                                       *)
(***************************************************************************)
storeTargetByTargetName(r, target, identifier, targetName) ==
    [r EXCEPT !.targetsByTargetName[identifier][targetName] = @ \cup {target}]

\* removeStoredTargetByTargetName leaving the element under the name.
RemoveStoredNothing(r, target, identifier, targetName) == r

removeStoredTargetByTargetName(r, target, identifier, targetName) ==
    [r EXCEPT !.targetsByTargetName[identifier][targetName] = @ \ {target}]

hasStoredTargetsByTargetName(r, identifier, targetName) ==
    r.targetsByTargetName[identifier][targetName] # {}

getStoredTargetsByTargetName(r, identifier, targetName) ==
    ElemSeq(r.targetsByTargetName[identifier][targetName])

isObservedTargetElement(r, element) ==
    \E i \in 1..Len(r.identifiers) : r.tattr[element][r.identifiers[i]] # NoName

\* AddTargetNotify without the test of lines 244-246: every instance is
\* called, notified before or not.
RECURSIVE AddTargetNotifyAgain(_, _, _, _)
AddTargetNotifyAgain(r, cs, target, targetName) ==
    IF cs = <<>> THEN r
    ELSE LET c == Head(cs)
         IN AddTargetNotifyAgain(
                [Invoke(r, c, getTargetConnectedMethodName(targetName), target)
                   EXCEPT !.targetsByController[c] = @ \cup {target}],
                Tail(cs), target, targetName)

\* The loop of the inner addTarget over the instances of the identifier.
RECURSIVE AddTargetNotify(_, _, _, _)
AddTargetNotify(r, cs, target, targetName) ==
    IF cs = <<>> THEN r
    ELSE LET c == Head(cs)
         IN IF target \in r.targetsByController[c]
            THEN AddTargetNotify(r, Tail(cs), target, targetName)
            ELSE AddTargetNotify(
                     [Invoke(r, c, getTargetConnectedMethodName(targetName), target)
                        EXCEPT !.targetsByController[c] = @ \cup {target}],
                     Tail(cs), target, targetName)

\* The inner addTarget(target, identifier).
addTargetFor(r, target, identifier) ==
    IF r.tattr[target][identifier] = NoName THEN r
    ELSE LET targetName == r.tattr[target][identifier]
             r1 == [r EXCEPT !.targetsByIdentifier[identifier] = @ \cup {target}]
             r2 == storeTargetByTargetName(r1, target, identifier, targetName)
         IN AddTargetNotify(r2, CtrlSeq(r2.controllers[identifier]), target,
                            targetName)

RECURSIVE AddTargetAll(_, _, _)
AddTargetAll(r, ids, target) ==
    IF ids = <<>> THEN r
    ELSE AddTargetAll(addTargetFor(r, target, Head(ids)), Tail(ids), target)

\* addTarget(target): every owned identifier.
addTarget(r, target) == AddTargetAll(r, r.identifiers, target)

\* RemoveTargetNotify without the finally of lines 303-305: the element stays
\* marked as delivered when the hook throws.
RECURSIVE RemoveTargetNotifyKeepOnThrow(_, _, _, _)
RemoveTargetNotifyKeepOnThrow(r, cs, target, targetName) ==
    IF cs = <<>> THEN r
    ELSE LET c == Head(cs)
             r1 == Invoke(r, c, getTargetDisconnectedMethodName(targetName), target)
         IN IF target \notin r.targetsByController[c]
            THEN RemoveTargetNotifyKeepOnThrow(r, Tail(cs), target, targetName)
            ELSE RemoveTargetNotifyKeepOnThrow(
                     IF c \in r.throwing THEN r1
                     ELSE [r1 EXCEPT !.targetsByController[c] = @ \ {target}],
                     Tail(cs), target, targetName)

\* The loop of the inner removeTarget over the instances of the identifier.
RECURSIVE RemoveTargetNotify(_, _, _, _)
RemoveTargetNotify(r, cs, target, targetName) ==
    IF cs = <<>> THEN r
    ELSE LET c == Head(cs)
         IN IF target \notin r.targetsByController[c]
            THEN RemoveTargetNotify(r, Tail(cs), target, targetName)
            ELSE RemoveTargetNotify(
                     [Invoke(r, c, getTargetDisconnectedMethodName(targetName), target)
                        EXCEPT !.targetsByController[c] = @ \ {target}],
                     Tail(cs), target, targetName)

\* The inner removeTarget(target, identifier).
removeTargetFor(r, target, identifier) ==
    IF r.tattr[target][identifier] = NoName THEN r
    ELSE LET targetName == r.tattr[target][identifier]
             r1 == [r EXCEPT !.targetsByIdentifier[identifier] = @ \ {target}]
             r2 == removeStoredTargetByTargetName(r1, target, identifier, targetName)
         IN RemoveTargetNotify(r2, CtrlSeq(r2.controllers[identifier]), target,
                               targetName)

RECURSIVE RemoveTargetAll(_, _, _)
RemoveTargetAll(r, ids, target) ==
    IF ids = <<>> THEN r
    ELSE RemoveTargetAll(removeTargetFor(r, target, Head(ids)), Tail(ids), target)

\* removeTarget(target): every owned identifier.
removeTarget(r, target) == RemoveTargetAll(r, r.identifiers, target)

\* disconnectAllTargets: the targets one instance was notified of.
RECURSIVE DisconnectTargetsOf(_, _, _, _)
DisconnectTargetsOf(r, c, identifier, targets) ==
    IF targets = <<>> THEN r
    ELSE LET target == Head(targets)
         IN IF r.tattr[target][identifier] = NoName
            THEN DisconnectTargetsOf(r, c, identifier, Tail(targets))
            ELSE LET targetName == r.tattr[target][identifier]
                     r1 == removeStoredTargetByTargetName(r, target, identifier,
                                                          targetName)
                 IN DisconnectTargetsOf(
                        Invoke(r1, c, getTargetDisconnectedMethodName(targetName),
                               target),
                        c, identifier, Tail(targets))

RECURSIVE DisconnectControllers(_, _, _)
DisconnectControllers(r, cs, identifier) ==
    IF cs = <<>> THEN r
    ELSE LET c == Head(cs)
             r1 == DisconnectTargetsOf(r, c, identifier,
                                       ElemSeq(r.targetsByController[c]))
         IN DisconnectControllers([r1 EXCEPT !.targetsByController[c] = {}],
                                  Tail(cs), identifier)

RECURSIVE DisconnectIdentifiers(_, _)
DisconnectIdentifiers(r, ids) ==
    IF ids = <<>> THEN r
    ELSE LET identifier == Head(ids)
             r1 == [r EXCEPT !.targetsByIdentifier[identifier] = {}]
         IN DisconnectIdentifiers(
                DisconnectControllers(r1, CtrlSeq(r1.controllers[identifier]),
                                      identifier),
                Tail(ids))

disconnectAllTargets(r) == DisconnectIdentifiers(r, r.identifiers)

\* querySelectorAll of the batch of selectors, then addTarget(target, identifier)
\* for each element found.
RECURSIVE AddTargetsFound(_, _, _)
AddTargetsFound(r, targets, identifier) ==
    IF targets = <<>> THEN r
    ELSE AddTargetsFound(addTargetFor(r, Head(targets), identifier),
                         Tail(targets), identifier)

\* The loop of searchTargets from index i, with the batch collected so far.
RECURSIVE SearchTargetsLoop(_, _, _, _)
SearchTargetsLoop(r, ids, i, batch) ==
    IF i > Len(ids) THEN r
    ELSE LET batch1 == batch \cup {ids[i]}
             flush == Cardinality(batch1) = batchSize \/ i = Len(ids)
             found == ElemSeq({e \in r.inDoc :
                                  \E id \in batch1 : r.tattr[e][id] # NoName})
             r1 == IF flush THEN AddTargetsFound(r, found, ids[i]) ELSE r
             r2 == [r1 EXCEPT !.searchedIdentifiersForTargets = @ \cup {ids[i]}]
         IN SearchTargetsLoop(r2, ids, i + 1, IF flush THEN {} ELSE batch1)

\* The body of searchTargets (without its throttle).
searchTargets(r) ==
    IF ~r.isConnected THEN r
    ELSE SearchTargetsLoop(
             r,
             SelectSeq(r.identifiers,
                       LAMBDA id : id \notin r.searchedIdentifiersForTargets),
             1, {})

(***************************************************************************)
(* The action index and the forwarding handlers.                           *)
(***************************************************************************)
\* The Action objects of the model: event, identifier, method (no modifier).
ProxyMethodNames == {getProxyActionName(m) : m \in Methods}
\* An action method a subclass of the relay defines for itself.
RelayMethods == {"refresh"}
Actions ==
    [event : Events, identifier : Ids \cup ForeignIds, method : Methods]
        \cup [event : Events, identifier : {PortalId},
              method : ProxyMethodNames \cup RelayMethods]

\* Action.toString: the directive "<event>-><identifier>#<method>".
toString(action) ==
    action.event \o "->" \o action.identifier \o "#" \o action.method

Tokens == {toString(a) : a \in Actions}
ParseTable == [token \in Tokens |-> CHOOSE a \in Actions : toString(a) = token]

\* parseActionToken: split at "->", "#" and ":".
parseActionToken(token) == ParseTable[token]

\* The directives of other controllers than the relay.
Directives == {toString(a) : a \in {b \in Actions : b.identifier # PortalId}}

toProxyAction(action) ==
    [event |-> action.event, identifier |-> PortalId,
     method |-> getProxyActionName(action.method)]

\* parseActions without lines 748-750: the portalled attribute is not read.
ParseActionsVisibleOnly(r, element) ==
    [i \in 1..Len(r.vattr[element]) |-> parseActionToken(r.vattr[element][i])]

\* parseActions: the tokens of the action attribute, then those of the
\* portalled attribute.
parseActions(r, element) ==
    LET tokens == r.vattr[element] \o r.pattr[element]
    IN [i \in 1..Len(tokens) |-> parseActionToken(tokens[i])]

\* setAttributeValue on the action attribute (value: a sequence of tokens,
\* <<>> for '' and for null).
setActionAttribute(r, element, value) ==
    IF value = r.vattr[element] THEN r
    ELSE Record([r EXCEPT !.vattr[element] = value],
                ActionAttrRecord(element, r.vattr[element]))

\* setAttributeValue on the portalled attribute, which no observer watches.
setPortalledAttribute(r, element, value) ==
    [r EXCEPT !.pattr[element] = value]

\* What the loops of addActionElement and removeActionElement collect.
NoLists == [toProxy |-> <<>>, toDelete |-> <<>>, newAttr |-> <<>>,
            newPortalled |-> <<>>]

\* delete this[getProxyActionName(action.method)] for the collected actions.
DeleteProxyMethods(r, toDelete) ==
    [r EXCEPT !.proxyMethods =
        @ \ {getProxyActionName(toDelete[i].method) : i \in 1..Len(toDelete)}]

\* addActionElement, lines 579-594: an element that has neither attribute.
RECURSIVE AddActionForget(_, _, _, _)
AddActionForget(r, l, element, directives) ==
    IF directives = <<>> THEN <<r, l>>
    ELSE LET d == Head(directives)
         IN IF d \notin r.actionToElementsKeys \/ r.actionToElementsMap[d] = {}
            THEN AddActionForget(r, l, element, Tail(directives))
            ELSE LET r1 == [r EXCEPT !.actionToElementsMap[d] = @ \ {element}]
                     l1 == IF r1.actionToElementsMap[d] = {}
                           THEN [l EXCEPT !.toDelete =
                                    Append(@, parseActionToken(d))]
                           ELSE l
                 IN AddActionForget(r1, l1, element, Tail(directives))

\* addActionElement, lines 596-624: the loop over the parsed actions.
RECURSIVE AddActionClassify(_, _, _, _)
AddActionClassify(r, l, element, actions) ==
    IF actions = <<>> THEN <<r, l>>
    ELSE LET action == Head(actions)
             d == toString(action)
         IN IF action.identifier = PortalId
            THEN AddActionClassify(r, l, element, Tail(actions))
            ELSE IF InSeq(action.identifier, r.identifiers)
            THEN AddActionClassify(
                     [r EXCEPT !.actionToElementsKeys = @ \cup {d},
                               !.actionToElementsMap[d] = @ \cup {element},
                               !.elementToActionsMap[element] = @ \cup {d}],
                     [l EXCEPT !.toProxy = Append(@, action),
                               !.newPortalled = Append(@, d)],
                     element, Tail(actions))
            ELSE LET r1 == [r EXCEPT !.actionToElementsKeys = @ \cup {d},
                                     !.actionToElementsMap[d] = @ \ {element},
                                     !.elementToActionsMap[element] = @ \ {d}]
                     l1 == [l EXCEPT !.newAttr = Append(@, d)]
                     l2 == IF r1.actionToElementsMap[d] = {}
                           THEN [l1 EXCEPT !.toDelete = Append(@, action)]
                           ELSE l1
                 IN AddActionClassify(r1, l2, element, Tail(actions))

\* addActionElement, lines 631-674: the loop over actionsToProxy.
RECURSIVE AddActionProxy(_, _, _, _)
AddActionProxy(r, l, element, toProxy) ==
    IF toProxy = <<>> THEN <<r, l>>
    ELSE LET action == Head(toProxy)
             proxyAction == toProxyAction(action)
         IN AddActionProxy(
                [r EXCEPT !.identifierToActionElementsMap[action.identifier] =
                              @ \cup {element},
                          !.actionElementToIdentifiersMap[element] =
                              @ \cup {action.identifier},
                          !.proxyMethods = @ \cup {proxyAction.method}],
                [l EXCEPT !.newAttr = Append(@, toString(proxyAction))],
                element, Tail(toProxy))

addActionElement(r, element) ==
    LET neither == r.vattr[element] = <<>> /\ r.pattr[element] = <<>>
    IN IF neither /\ r.elementToActionsMap[element] = {}
       THEN r
       ELSE LET s0 == IF neither
                      THEN AddActionForget(r, NoLists, element,
                               SetToSeq(r.elementToActionsMap[element]))
                      ELSE <<r, NoLists>>
                s1 == AddActionClassify(s0[1], s0[2], element,
                                        parseActions(r, element))
                r2 == DeleteProxyMethods(s1[1], s1[2].toDelete)
                s3 == AddActionProxy(r2, s1[2], element, s1[2].toProxy)
                r4 == setActionAttribute(s3[1], element, s3[2].newAttr)
            IN setPortalledAttribute(r4, element, s3[2].newPortalled)

\* removeActionElement, lines 697-713: the loop over the parsed actions.
RECURSIVE RemoveActionLoop(_, _, _, _, _)
RemoveActionLoop(r, l, element, actions, force) ==
    IF actions = <<>> THEN <<r, l>>
    ELSE LET action == Head(actions)
             d == toString(action)
         IN IF action.identifier = PortalId
            THEN RemoveActionLoop(r, l, element, Tail(actions), force)
            ELSE LET l1 == IF force THEN l
                           ELSE [l EXCEPT !.newAttr = Append(@, d)]
                 IN IF d \notin r.actionToElementsKeys
                    THEN RemoveActionLoop(r, l1, element, Tail(actions), force)
                    ELSE IF r.actionToElementsMap[d] \ {element} = {}
                    THEN RemoveActionLoop(
                             [r EXCEPT !.actionToElementsMap[d] = {},
                                       !.actionToElementsKeys = @ \ {d}],
                             [l1 EXCEPT !.toDelete = Append(@, action)],
                             element, Tail(actions), force)
                    ELSE RemoveActionLoop(
                             [r EXCEPT !.actionToElementsMap[d] = @ \ {element}],
                             l1, element, Tail(actions), force)

removeActionElement(r, element, forceActionsAttributeRemoval) ==
    LET actions == parseActions(r, element)
        r1 == [r EXCEPT
                 !.elementToActionsMap[element] = {},
                 !.identifierToActionElementsMap =
                     [id \in DOMAIN @ |->
                         IF id \in r.actionElementToIdentifiersMap[element]
                         THEN @[id] \ {element} ELSE @[id]],
                 !.actionElementToIdentifiersMap[element] = {}]
        s2 == RemoveActionLoop(r1, NoLists, element, actions,
                               forceActionsAttributeRemoval)
        r3 == DeleteProxyMethods(s2[1], s2[2].toDelete)
        r4 == setActionAttribute(r3, element, s2[2].newAttr)
    IN setPortalledAttribute(r4, element, <<>>)

RECURSIVE RemoveActionElements(_, _)
RemoveActionElements(r, elements) ==
    IF elements = <<>> THEN r
    ELSE RemoveActionElements(removeActionElement(r, Head(elements), FALSE),
                              Tail(elements))

removeAllProxyActionsByIdentifier(r, identifier) ==
    LET r1 == RemoveActionElements(
                  r, ElemSeq(r.identifierToActionElementsMap[identifier]))
    IN [r1 EXCEPT !.identifierToActionElementsMap[identifier] = {}]

RECURSIVE RemoveProxyActionsOf(_, _)
RemoveProxyActionsOf(r, ids) ==
    IF ids = <<>> THEN r
    ELSE RemoveProxyActionsOf(removeAllProxyActionsByIdentifier(r, Head(ids)),
                              Tail(ids))

removeAllProxyActions(r) == RemoveProxyActionsOf(r, r.identifiers)

RECURSIVE AddActionElements(_, _)
AddActionElements(r, elements) ==
    IF elements = <<>> THEN r
    ELSE AddActionElements(addActionElement(r, Head(elements)), Tail(elements))

\* The body of searchActions (without its throttle).
searchActions(r) ==
    LET ids == {id \in SeqToSet(r.identifiers) :
                   id \notin r.searchedIdentifiersForActions}
    IN IF ~r.isConnected \/ ids = {} THEN r
       ELSE [AddActionElements(r, ElemSeq({e \in r.inDoc : r.vattr[e] # <<>>}))
               EXCEPT !.searchedIdentifiersForActions = @ \cup ids]

\* The forwarding handler this[__proxyAction__<method>], lines 649-673:
\* the inner loop over the instances of one directive's identifier.
\* InvokeControllers without the try and catch of lines 663-667: the first
\* method that throws ends the loop.
RECURSIVE InvokeControllersUntilThrow(_, _, _, _)
InvokeControllersUntilThrow(r, cs, method, target) ==
    IF cs = <<>> THEN r
    ELSE LET r1 == invokeControllerMethod(r, Head(cs), method, target)
         IN IF r1.thrown THEN r1
            ELSE InvokeControllersUntilThrow(r1, Tail(cs), method, target)

RECURSIVE InvokeControllers(_, _, _, _)
InvokeControllers(r, cs, method, target) ==
    IF cs = <<>> THEN r
    ELSE InvokeControllers(Invoke(r, Head(cs), method, target), Tail(cs),
                           method, target)

\* The "-param" attributes an element may carry: for identifier a the names
\* id, item-id and item_id, for identifier b the name id.  The other
\* attributes of the model (data-action, data-action-portalled and
\* data-<id>-target) do not end in "-param" and match no pattern.
ParamNames == {"id", "item-id", "item_id"}
getParamAttributeName(identifier, name) ==
    "data-" \o identifier \o "-" \o name \o "-param"
ParamAttrs ==
    {getParamAttributeName("a", n) : n \in ParamNames}
        \cup {getParamAttributeName("b", "id")}
\* The attribute texts: one that is JSON (the number 42), one that is not.
ParamValues == {"42", "abc"}
JSONTexts == {"42"}
NoParams == [e \in Elems |-> <<>>]

\* The value JSON.parse returns for a text that parses.
JSONParse(value) == [type |-> "number", value |-> value]

\* parseParam without JSON.parse: every value stays the attribute's string.
ParseParamRaw(value) == [type |-> "string", value |-> value]

\* parseParam, lines 784-790: JSON.parse, and the raw string when it throws.
parseParam(value) ==
    IF value \in JSONTexts THEN JSONParse(value)
    ELSE [type |-> "string", value |-> value]

\* name.match(pattern), lines 791-793: the first group of
\* ^data-<identifier>-(.+)-param$, as the set of the names that fit (empty
\* when the name does not match).
MatchParam(name, identifier) ==
    {n \in ParamNames : getParamAttributeName(identifier, n) = name}

\* getActionParams, lines 792-798: the loop over element.attributes; a later
\* attribute with the same key overwrites the earlier entry.
RECURSIVE GetActionParamsLoop(_, _, _)
GetActionParamsLoop(params, attributes, identifier) ==
    IF attributes = <<>> THEN params
    ELSE LET attribute == Head(attributes)
             match == MatchParam(attribute.name, identifier)
         IN IF match = {}
            THEN GetActionParamsLoop(params, Tail(attributes), identifier)
            ELSE GetActionParamsLoop(
                     (camelCase(CHOOSE n \in match : TRUE)
                          :> parseParam(attribute.value)) @@ params,
                     Tail(attributes), identifier)

getActionParams(r, element, identifier) ==
    GetActionParamsLoop(<<>>, r.dattr[element], identifier)

\* The forwarding handler, lines 655-672: the loop over the directives the
\* element carries at the time of the event.
RECURSIVE ProxyHandlerLoop(_, _, _, _)
ProxyHandlerLoop(r, targetActions, method, target) ==
    IF targetActions = <<>> THEN r
    ELSE LET targetAction == Head(targetActions)
             identifier == targetAction.identifier
         IN IF identifier = PortalId \/ targetAction.method # method
            THEN ProxyHandlerLoop(r, Tail(targetActions), method, target)
            ELSE IF identifier \notin Ids \/ r.controllers[identifier] = {}
            THEN ProxyHandlerLoop(r, Tail(targetActions), method, target)
            ELSE ProxyHandlerLoop(
                     InvokeControllers(
                         [r EXCEPT !.eventParams =
                             Append(@, [identifier |-> identifier,
                                        target |-> target,
                                        params |-> getActionParams(
                                                       r, target, identifier)])],
                         CtrlSeq(r.controllers[identifier]),
                         targetAction.method, target),
                     Tail(targetActions), method, target)

\* The forwarding handler resolving the directives from the action index, as they were
\* when the element was last processed, instead of parsing the element.
ProxyHandlerFromIndex(r, method, target) ==
    LET recorded == SetToSeq(r.elementToActionsMap[target])
    IN ProxyHandlerLoop(
           r, [i \in 1..Len(recorded) |-> parseActionToken(recorded[i])],
           method, target)

\* The handler created for the directives of method `method`, called with an
\* event whose currentTarget is `target`.
proxyHandler(r, method, target) ==
    ProxyHandlerLoop(r, parseActions(r, target), method, target)

(***************************************************************************)
(* The mutation records.                                                   *)
(***************************************************************************)
\* handleMutations, lines 195-207: a record of a target attribute.
RECURSIVE HandleTargetAttribute(_, _, _)
HandleTargetAttribute(r, ids, mutation) ==
    IF ids = <<>> THEN r
    ELSE LET identifier == Head(ids)
             oldValue == mutation.oldName
             currentValue == r.tattr[mutation.target][identifier]
         IN IF mutation.attributeName # getTargetAttributeName(identifier)
            THEN HandleTargetAttribute(r, Tail(ids), mutation)
            ELSE IF oldValue = NoName /\ currentValue # NoName
                 THEN addTargetFor(r, mutation.target, identifier)
            ELSE IF oldValue # NoName /\ currentValue = NoName
                 THEN removeTargetFor(r, mutation.target, identifier)
            ELSE IF oldValue # NoName /\ currentValue # NoName
                    /\ oldValue # currentValue
                 THEN storeTargetByTargetName(
                          removeStoredTargetByTargetName(r, mutation.target,
                                                         identifier, oldValue),
                          mutation.target, identifier, currentValue)
            ELSE r

\* handleMutations, lines 186-193: a record of the action attribute.
HandleActionAttribute(r, mutation) ==
    LET oldValue == mutation.oldTokens
        currentValue == r.vattr[mutation.target]
    IN IF oldValue = <<>> /\ currentValue # <<>>
       THEN addActionElement(r, mutation.target)
       ELSE IF oldValue # <<>> /\ currentValue # <<>> /\ oldValue # currentValue
       THEN addActionElement(r, mutation.target)
       ELSE IF oldValue # <<>> /\ currentValue = <<>>
       THEN removeActionElement(r, mutation.target, TRUE)
       ELSE r

HandleMutation(r, mutation) ==
    LET node == mutation.target
    IN IF mutation.type = "added"
       THEN LET r1 == IF isObservedTargetElement(r, node)
                      THEN addTarget(r, node) ELSE r
            IN IF r1.vattr[node] # <<>> THEN addActionElement(r1, node) ELSE r1
       ELSE IF mutation.type = "removed"
       THEN LET r1 == IF isObservedTargetElement(r, node)
                      THEN removeTarget(r, node) ELSE r
            IN IF r1.vattr[node] # <<>>
               THEN removeActionElement(r1, node, FALSE) ELSE r1
       ELSE IF mutation.attributeName = getActionAttributeName
       THEN HandleActionAttribute(r, mutation)
       ELSE HandleTargetAttribute(r, r.identifiers, mutation)

RECURSIVE HandleMutationsLoop(_, _)
HandleMutationsLoop(r, mutations) ==
    IF mutations = <<>> THEN r
    ELSE HandleMutationsLoop(HandleMutation(r, Head(mutations)), Tail(mutations))

\* The observer's callback with the records queued so far; the records the
\* relay's own writes queue meanwhile wait for the next delivery.
handleMutations(r) ==
    HandleMutationsLoop([r EXCEPT !.pending = <<>>], r.pending)

(***************************************************************************)
(* The throttled sweeps (initialize, lines 52-55).  throttle(1, f) runs f  *)
(* at once when more than the delay has passed since its last run, and     *)
(* otherwise (re)arms one trailing timer that runs f.                      *)
(***************************************************************************)
\* exec of the throttle: the sweep runs and the time of the run is kept.
execSearchTargets(r) ==
    [searchTargets(r) EXCEPT !.throttleT = "recent", !.ran.targets = @ + 1]

execSearchActions(r) ==
    [searchActions(r) EXCEPT !.throttleA = "recent", !.ran.actions = @ + 1]

throttledSearchTargets(r) ==
    IF r.throttleT = "idle" THEN execSearchTargets(r)
    ELSE [r EXCEPT !.throttleT = "scheduled"]

throttledSearchActions(r) ==
    IF r.throttleA = "idle" THEN execSearchActions(r)
    ELSE [r EXCEPT !.throttleA = "scheduled"]

\* More than the throttles' delay passes (Date.now() - lastExec > 1) while no
\* trailing timer is armed.
elapse(r) ==
    [r EXCEPT !.throttleT = IF @ = "recent" THEN "idle" ELSE @,
              !.throttleA = IF @ = "recent" THEN "idle" ELSE @]

(***************************************************************************)
(* The accessor patches.                                                   *)
(***************************************************************************)
\* overrideControllerGetTargetMethods, after its check for a double patch:
\* an instance whose class declares no targets is left alone and not recorded.
overrideControllerGetTargetMethods(r, controller) ==
    IF DeclaredTargets[controller] = {} THEN r
    ELSE [r EXCEPT !.patched = @ \cup {controller},
                   !.controllerOriginalMethods = @ \cup {controller}]

\* restoreControllerGetTargetMethods without the loop of lines 505-511: the
\* record is forgotten and the patched accessors stay on the instance.
RestoreForgetsOnly(r, controller) ==
    [r EXCEPT !.controllerOriginalMethods = @ \ {controller}]

restoreControllerGetTargetMethods(r, controller) ==
    IF controller \notin r.controllerOriginalMethods THEN r
    ELSE [r EXCEPT !.patched = @ \ {controller},
                   !.controllerOriginalMethods = @ \ {controller}]

RECURSIVE RestoreControllers(_, _)
RestoreControllers(r, cs) ==
    IF cs = <<>> THEN r
    ELSE RestoreControllers(restoreControllerGetTargetMethods(r, Head(cs)),
                            Tail(cs))

restoreControllersGetTargetMethods(r) ==
    RestoreControllers(r, CtrlSeq(r.controllerOriginalMethods))

\* The target accessors of an instance, read in state r.  locals is what the
\* framework's own lookup finds in the instance's scope for the name
\* (controller.targets.findAll); an instance that is not patched has the
\* framework's accessors.
MissingTarget == "Missing target element"

\* has<Name>Target, lines 455-466.
hasTargetGetter(r, controller, targetName, locals) ==
    IF controller \notin r.patched THEN locals # <<>>
    ELSE IF hasStoredTargetsByTargetName(r, IdOf[controller], targetName)
         THEN TRUE
         ELSE locals # <<>>

\* The singular accessor looking in the instance's own scope first.
TargetGetterLocalFirst(r, controller, targetName, locals) ==
    IF locals # <<>> THEN locals[1]
    ELSE IF hasStoredTargetsByTargetName(r, IdOf[controller], targetName)
         THEN getStoredTargetsByTargetName(r, IdOf[controller], targetName)[1]
         ELSE MissingTarget

\* <name>Target, lines 467-482.
targetGetter(r, controller, targetName, locals) ==
    IF controller \in r.patched
       /\ hasStoredTargetsByTargetName(r, IdOf[controller], targetName)
    THEN getStoredTargetsByTargetName(r, IdOf[controller], targetName)[1]
    ELSE IF locals = <<>> THEN MissingTarget ELSE locals[1]

\* <name>Targets, lines 483-495.
targetsGetter(r, controller, targetName, locals) ==
    IF controller \notin r.patched THEN locals
    ELSE getStoredTargetsByTargetName(r, IdOf[controller], targetName)
             \o locals

(***************************************************************************)
(* The public methods.                                                     *)
(***************************************************************************)
EmptyIndex ==
    [targetsByController |-> [c \in Ctrls |-> {}],
     targetsByIdentifier |-> [id \in Ids |-> {}],
     targetsByTargetName |-> [id \in Ids |-> [n \in Names |-> {}]],
     actionToElementsMap |-> [d \in Directives |-> {}],
     elementToActionsMap |-> [e \in Elems |-> {}],
     identifierToActionElementsMap |-> [id \in Ids |-> {}],
     actionElementToIdentifiersMap |-> [e \in Elems |-> {}]]

connect(r) ==
    LET r1 == connectObserver(reinitializeObserver([r EXCEPT !.isConnected = TRUE]))
    IN throttledSearchActions(throttledSearchTargets(r1))

disconnect(r) ==
    LET r1 == disconnectAllTargets([r EXCEPT !.isConnected = FALSE])
        r2 == restoreControllersGetTargetMethods(r1)
        r3 == removeAllProxyActions(r2)
        r4 == disconnectObserver(r3)
    IN [r4 EXCEPT
          !.identifiers = <<>>,
          !.searchedIdentifiersForTargets = {},
          !.searchedIdentifiersForActions = {},
          !.controllers = [id \in Ids |-> {}],
          !.targetsByController = EmptyIndex.targetsByController,
          !.targetsByIdentifier = EmptyIndex.targetsByIdentifier,
          !.targetsByTargetName = EmptyIndex.targetsByTargetName,
          !.controllerOriginalMethods = {},
          !.actionToElementsMap = EmptyIndex.actionToElementsMap,
          !.actionToElementsKeys = {},
          !.elementToActionsMap = EmptyIndex.elementToActionsMap,
          !.identifierToActionElementsMap =
              EmptyIndex.identifierToActionElementsMap,
          !.actionElementToIdentifiersMap =
              EmptyIndex.actionElementToIdentifiersMap]

\* sync, lines 100-105: the targets already known for the identifier.
RECURSIVE SyncCatchUp(_, _, _)
SyncCatchUp(r, targets, identifier) ==
    IF targets = <<>> THEN r
    ELSE SyncCatchUp(addTargetFor(r, Head(targets), identifier), Tail(targets),
                     identifier)

sync(r, controller) ==
    LET identifier == IdOf[controller]
        r1 == [r EXCEPT
                 !.identifiers = IF InSeq(identifier, @) THEN @
                                 ELSE Append(@, identifier),
                 !.controllers[identifier] = @ \cup {controller}]
    IN IF controller \in r1.controllerOriginalMethods
       THEN [r1 EXCEPT !.thrown = TRUE]
       ELSE LET r2 == overrideControllerGetTargetMethods(r1, controller)
                r3 == IF r2.isConnected
                      THEN throttledSearchActions(throttledSearchTargets(
                               connectObserver(reinitializeObserver(r2))))
                      ELSE r2
            IN SyncCatchUp(r3, ElemSeq(r3.targetsByIdentifier[identifier]),
                           identifier)

\* unsync without line 113: the instance stays in the set of its identifier.
UnsyncKeepsInstance(r, controller) ==
    connectObserver(reinitializeObserver(
        [restoreControllerGetTargetMethods(r, controller)
           EXCEPT !.targetsByController[controller] = {}]))

unsync(r, controller) ==
    LET identifier == IdOf[controller]
    IN IF r.controllers[identifier] = {} THEN r
       ELSE LET r1 == restoreControllerGetTargetMethods(
                          [r EXCEPT !.controllers[identifier] = @ \ {controller}],
                          controller)
                r2 == IF r1.controllers[identifier] # {} THEN r1
                      ELSE LET r3 ==
                                 [r1 EXCEPT
                                    !.identifiers = SeqWithout(@, identifier),
                                    !.targetsByIdentifier[identifier] = {},
                                    !.searchedIdentifiersForTargets =
                                        @ \ {identifier},
                                    !.searchedIdentifiersForActions =
                                        @ \ {identifier},
                                    !.targetsByTargetName[identifier] =
                                        [n \in Names |-> {}]]
                           IN IF r3.isConnected
                              THEN removeAllProxyActionsByIdentifier(r3, identifier)
                              ELSE r3
                r4 == [r2 EXCEPT !.targetsByController[controller] = {}]
            IN connectObserver(reinitializeObserver(r4))

(***************************************************************************)
(* The portals mixin of a component (Portals of portal.ts, PortalsMixin of *)
(* typed-stimulus.ts: the same three wrappers).  A component may have two  *)
(* relays as outlets: the relay of this model and a second one, of which   *)
(* only the registry is kept (its accessor patches are not modelled).      *)
(***************************************************************************)
ThisRelay == "relay1"
OtherRelay == "relay2"
Outlets == {ThisRelay, OtherRelay}
OutletOrder == <<ThisRelay, OtherRelay>>

\* The fields of the second relay that decide who is registered in it.
EmptyRegistry ==
    [controllers |-> [id \in Ids |-> {}], controllerOriginalMethods |-> {}]

\* sync of the second relay, lines 86-93.
otherSync(r, controller) ==
    LET r1 == [r EXCEPT !.other.controllers[IdOf[controller]] =
                            @ \cup {controller}]
    IN IF controller \in r.other.controllerOriginalMethods
       THEN [r1 EXCEPT !.thrown = TRUE]
       ELSE IF DeclaredTargets[controller] = {} THEN r1
       ELSE [r1 EXCEPT !.other.controllerOriginalMethods = @ \cup {controller}]

\* unsync of the second relay, lines 109-117.
otherUnsync(r, controller) ==
    IF r.other.controllers[IdOf[controller]] = {} THEN r
    ELSE [r EXCEPT !.other.controllers[IdOf[controller]] = @ \ {controller},
                   !.other.controllerOriginalMethods = @ \ {controller}]

\* disconnect of the second relay, lines 68, 74 and 78.
otherDisconnect(r) == [r EXCEPT !.other = EmptyRegistry]

\* outlet.sync(this) and outlet.unsync(this), logged in calls.
outletSync(r, outlet, controller) ==
    LET r1 == [r EXCEPT !.calls = Append(@, [outlet |-> outlet,
                                             method |-> "sync",
                                             controller |-> controller])]
    IN IF outlet = ThisRelay THEN sync(r1, controller)
       ELSE otherSync(r1, controller)

outletUnsync(r, outlet, controller) ==
    LET r1 == [r EXCEPT !.calls = Append(@, [outlet |-> outlet,
                                             method |-> "unsync",
                                             controller |-> controller])]
    IN IF outlet = ThisRelay THEN unsync(r1, controller)
       ELSE otherUnsync(r1, controller)

\* The instance's own method that the mixin wrapped, called without a catch.
callOriginal(r, controller, method) ==
    invokeControllerMethod(r, controller, method, NoName)

\* for (const outlet of portalOutlets) outlet.unsync(this)
RECURSIVE UnsyncOutlets(_, _, _)
UnsyncOutlets(r, outlets, controller) ==
    IF outlets = <<>> THEN r
    ELSE UnsyncOutlets(outletUnsync(r, Head(outlets), controller),
                       Tail(outlets), controller)

\* The wrapped disconnect that forgets its relays without telling them.
MixinDisconnectClearOnly(r, controller) ==
    callOriginal([r EXCEPT !.portalOutlets[controller] = {}], controller,
                 "disconnect")

\* The wrapped disconnect, portal.ts lines 39-49.
mixinDisconnect(r, controller) ==
    LET outlets == SelectSeq(OutletOrder,
                             LAMBDA o : o \in r.portalOutlets[controller])
        r1 == IF outlets = <<>> THEN r
              ELSE [UnsyncOutlets(r, outlets, controller)
                      EXCEPT !.portalOutlets[controller] = {}]
    IN callOriginal(r1, controller, "disconnect")

\* The wrapped portalOutletConnected, portal.ts lines 52-58: an error of sync
\* leaves the wrapper before the relay is remembered.
mixinPortalOutletConnected(r, outlet, controller) ==
    LET r1 == outletSync(r, outlet, controller)
    IN IF r1.thrown THEN r1
       ELSE callOriginal([r1 EXCEPT !.portalOutlets[controller] = @ \cup {outlet}],
                         controller, "portalOutletConnected")

\* The wrapped portalOutletDisconnected, portal.ts lines 61-67.
mixinPortalOutletDisconnected(r, outlet, controller) ==
    LET r1 == outletUnsync(r, outlet, controller)
    IN callOriginal([r1 EXCEPT !.portalOutlets[controller] = @ \ {outlet}],
                    controller, "portalOutletDisconnected")

(***************************************************************************)
(* The lookups of a component instance (getControllerAsync of the utils,   *)
(* Resolvable.getAsync of src/unnamed/part_000).  The repository holds two *)
(* bodies of getControllerAsync: the one of part_001 and the one of        *)
(* part_002 and part_003; lookup.version says which one the build links.   *)
(* Time is Date.now(); a timer set with delay d runs no sooner than d      *)
(* later.                                                                  *)
(***************************************************************************)
UtilsVersions == {"part_001", "part_003"}
maxAttempts == 10

\* A promise and the closure of the poll that settles it.
NoPromise ==
    [state |-> "none", value |-> "none", mode |-> "none", startTime |-> 0,
     timeout |-> 0, poll |-> 0, attempts |-> 0, armed |-> FALSE, due |-> 0]

\* Nothing asked yet: version of the utils, clock, whether
\* identifierToAppMap knows the identifier, whether the element has a live
\* instance, the promise of getControllerAsync and the one of getAsync.
IdleLookup(version) ==
    [version |-> version, now |-> 0, app |-> FALSE, live |-> FALSE,
     inner |-> NoPromise, outer |-> NoPromise]

\* What follows the settling of the promise of getControllerAsync: getAsync
\* returned that very promise (mode "same"), or awaits it inside checkApp
\* (mode "await"), where a rejection ends checkApp and nothing settles the
\* promise getAsync returned.
AfterInner(l) ==
    IF l.outer.state # "pending" \/ l.inner.state \notin {"resolved", "rejected"}
    THEN l
    ELSE IF l.outer.mode = "same"
    THEN [l EXCEPT !.outer.state = l.inner.state,
                   !.outer.value = l.inner.value]
    ELSE IF l.outer.mode = "await"
    THEN IF l.inner.state = "resolved"
         THEN [l EXCEPT !.outer.state = "resolved",
                        !.outer.value = l.inner.value]
         ELSE [l EXCEPT !.outer.mode = "dropped"]
    ELSE l

\* checkController; onTimeout is what the branch of the elapsed timeout does.
CheckControllerWith(l, onTimeout) ==
    LET p == [l.inner EXCEPT !.attempts = @ + 1, !.armed = FALSE]
    IN AfterInner(
        [l EXCEPT !.inner =
            IF l.live
            THEN [p EXCEPT !.state = "resolved", !.value = "controller"]
            ELSE IF l.now - p.startTime >= p.timeout
            THEN [p EXCEPT !.state = onTimeout.state, !.value = onTimeout.value]
            ELSE IF p.attempts <= maxAttempts
            THEN [p EXCEPT !.armed = TRUE, !.due = l.now]
            ELSE [p EXCEPT !.armed = TRUE, !.due = l.now + p.poll]])

\* checkController of part_001, lines 26-38: reject on timeout.
checkControllerRejecting(l) ==
    CheckControllerWith(l, [state |-> "rejected", value |-> "not found"])

\* checkController of part_003, lines 104-116 (and part_002, lines 36-48):
\* resolve(null) on timeout.
checkController(l) ==
    CheckControllerWith(l, [state |-> "resolved", value |-> "null"])

CheckControllerOf(l) ==
    IF l.version = "part_001" THEN checkControllerRejecting(l)
    ELSE checkController(l)

\* getControllerAsync(app, element, identifier, timeout, poll): the first
\* poll runs inside the call.
getControllerAsync(l, timeout, poll) ==
    CheckControllerOf(
        [l EXCEPT !.inner = [NoPromise EXCEPT !.state = "pending",
                                              !.startTime = l.now,
                                              !.timeout = timeout,
                                              !.poll = poll]])

\* checkApp of Resolvable.getAsync, part_000 lines 45-60.
checkApp(l) ==
    LET p == [l.outer EXCEPT !.attempts = @ + 1, !.armed = FALSE]
        elapsed == l.now - p.startTime
    IN IF l.app
       THEN IF p.timeout <= elapsed
            THEN [l EXCEPT !.outer =
                     [p EXCEPT !.state = "resolved",
                               !.value = IF l.live THEN "controller"
                                         ELSE "null"]]
            ELSE getControllerAsync([l EXCEPT !.outer = [p EXCEPT !.mode = "await"]],
                                    p.timeout - elapsed, p.poll)
       ELSE IF elapsed >= p.timeout
       THEN [l EXCEPT !.outer = [p EXCEPT !.state = "resolved",
                                          !.value = "null"]]
       ELSE IF p.attempts <= maxAttempts
       THEN [l EXCEPT !.outer = [p EXCEPT !.armed = TRUE, !.due = l.now]]
       ELSE [l EXCEPT !.outer = [p EXCEPT !.armed = TRUE,
                                          !.due = l.now + p.poll]]

\* Resolvable.getAsync(element, timeout, poll), part_000 lines 31-63.
getAsync(l, timeout, poll) ==
    LET p == [NoPromise EXCEPT !.state = "pending", !.startTime = l.now,
                               !.timeout = timeout, !.poll = poll]
    IN IF l.app
       THEN getControllerAsync([l EXCEPT !.outer = [p EXCEPT !.mode = "same"]],
                               timeout, poll)
       ELSE checkApp([l EXCEPT !.outer = [p EXCEPT !.mode = "poll"]])

(***************************************************************************)
(* The framework's dispatch of a user event (Stimulus, not part of src/):  *)
(* every token of the element's action attribute that names the relay and  *)
(* the event is bound to the relay's method of that name; a missing method *)
(* is reported as an error and calls nothing.                              *)
(***************************************************************************)
ProxiedMethod(name) == CHOOSE m \in Methods : getProxyActionName(m) = name

RECURSIVE DispatchLoop(_, _, _, _)
DispatchLoop(r, tokens, element, event) ==
    IF tokens = <<>> THEN r
    ELSE LET action == parseActionToken(Head(tokens))
         IN IF action.identifier = PortalId /\ action.event = event
               /\ action.method \in r.proxyMethods
            THEN DispatchLoop(proxyHandler(r, ProxiedMethod(action.method), element),
                              Tail(tokens), element, event)
            ELSE DispatchLoop(r, Tail(tokens), element, event)

dispatch(r, element, event) == DispatchLoop(r, r.vattr[element], element, event)

(***************************************************************************)
(* Changes the page's author makes to the document.                        *)
(***************************************************************************)
insertElement(r, e) ==
    Record([r EXCEPT !.inDoc = @ \cup {e}], ChildRecord("added", e))

removeElement(r, e) ==
    Record([r EXCEPT !.inDoc = @ \ {e}], ChildRecord("removed", e))

setTargetAttribute(r, e, identifier, value) ==
    Record([r EXCEPT !.tattr[e][identifier] = value],
           TargetAttrRecord(e, identifier, r.tattr[e][identifier]))

\* The elements below an element in the fragment the author has built: e2 is
\* a child of e1.
Descendants == [e \in Elems |-> IF e = "e1" THEN {"e2"} ELSE {}]

\* The author inserts, or removes, an element with everything below it: the
\* observer reports one childList record whose addedNodes (removedNodes) hold
\* the root alone.
insertSubtree(r, root) ==
    Record([r EXCEPT !.inDoc = @ \cup {root} \cup Descendants[root]],
           ChildRecord("added", root))

removeSubtree(r, root) ==
    Record([r EXCEPT !.inDoc = @ \ ({root} \cup Descendants[root])],
           ChildRecord("removed", root))

(***************************************************************************)
(* The history of the target hooks.  It is kept by the specifications that *)
(* start with a history (NoCalls) and left alone by the others (Untracked).*)
(***************************************************************************)
Untracked == [tracked |-> FALSE]

\* last[c][e]: the last target hook instance c received for element e.
\* balanced: so far the connected and the disconnected hooks of every pair
\* have alternated, a connected one first.  paired: so far every disconnected
\* hook had the name of the connected hook before it.
\* synced: the instances passed to sync and not passed to unsync since, on a
\* relay not disconnected since; leaving: those the current step takes out
\* of synced when it returns.  quiet: so far every call of a hook or of an
\* action method was made on an instance that was in synced.
NoCalls ==
    [tracked |-> TRUE,
     last |-> [c \in Ctrls |-> [e \in Elems |-> [kind |-> "none",
                                                 name |-> NoName]]],
     balanced |-> TRUE, paired |-> TRUE,
     synced |-> {}, leaving |-> {}, quiet |-> TRUE]

\* sync(c) is called; unsync or disconnect() is called and will return.
Entering(t, c) ==
    IF t.tracked THEN [t EXCEPT !.synced = @ \cup {c}] ELSE t

Leaving(t, cs) ==
    IF t.tracked THEN [t EXCEPT !.leaving = cs] ELSE t

\* The history after one more call.
TrackCall(s, call) ==
    LET c == call.controller
        e == call.element
        t == [s EXCEPT !.quiet = @ /\ c \in s.synced]
        before == t.last[c][e]
    IN IF \E n \in Names : call.method = getTargetConnectedMethodName(n)
       THEN LET n == CHOOSE m \in Names :
                         call.method = getTargetConnectedMethodName(m)
            IN [t EXCEPT !.last[c][e] = [kind |-> "connected", name |-> n],
                         !.balanced = @ /\ before.kind # "connected"]
       ELSE IF \E n \in Names : call.method = getTargetDisconnectedMethodName(n)
       THEN LET n == CHOOSE m \in Names :
                         call.method = getTargetDisconnectedMethodName(m)
            IN [t EXCEPT !.last[c][e] = [kind |-> "disconnected", name |-> n],
                         !.balanced = @ /\ before.kind = "connected",
                         !.paired = @ /\ (before.kind = "connected"
                                              => before.name = n)]
       ELSE t

\* The history after the calls of one step, in their order.
RECURSIVE Track(_, _)
Track(t, h) ==
    IF ~t.tracked THEN t
    ELSE IF h = <<>>
    THEN [t EXCEPT !.synced = @ \ t.leaving, !.leaving = {}]
    ELSE Track(TrackCall(t, Head(h)), Tail(h))

\* The step: every variable takes the value the method left in the record.
Apply(r) ==
    /\ inDoc' = r.inDoc
    /\ tattr' = r.tattr
    /\ vattr' = r.vattr
    /\ pattr' = r.pattr
    /\ dattr' = r.dattr
    /\ isConnected' = r.isConnected
    /\ observer' = r.observer
    /\ filter' = r.filter
    /\ pending' = r.pending
    /\ identifiers' = r.identifiers
    /\ searchedIdentifiersForTargets' = r.searchedIdentifiersForTargets
    /\ searchedIdentifiersForActions' = r.searchedIdentifiersForActions
    /\ controllers' = r.controllers
    /\ targetsByController' = r.targetsByController
    /\ targetsByIdentifier' = r.targetsByIdentifier
    /\ targetsByTargetName' = r.targetsByTargetName
    /\ controllerOriginalMethods' = r.controllerOriginalMethods
    /\ actionToElementsMap' = r.actionToElementsMap
    /\ actionToElementsKeys' = r.actionToElementsKeys
    /\ elementToActionsMap' = r.elementToActionsMap
    /\ identifierToActionElementsMap' = r.identifierToActionElementsMap
    /\ actionElementToIdentifiersMap' = r.actionElementToIdentifiersMap
    /\ proxyMethods' = r.proxyMethods
    /\ throttleT' = r.throttleT
    /\ throttleA' = r.throttleA
    /\ patched' = r.patched
    /\ throwing' = r.throwing
    /\ portalOutlets' = r.portalOutlets
    /\ connectedOutlets' = r.connectedOutlets
    /\ other' = r.other
    /\ lookup' = r.lookup
    /\ calls' = r.calls
    /\ ran' = r.ran
    /\ hooks' = r.hooks
    /\ eventParams' = r.eventParams
    /\ errors' = r.errors
    /\ thrown' = r.thrown
    /\ told' = Track(r.told, r.hooks)

(***************************************************************************)
(* Initial state and actions.                                              *)
(***************************************************************************)
\* The relay after construction and initialize(), the instances unpatched.
InitFields ==
    /\ isConnected = FALSE
    /\ observer = "null"
    /\ filter = {}
    /\ pending = <<>>
    /\ identifiers = <<>>
    /\ searchedIdentifiersForTargets = {}
    /\ searchedIdentifiersForActions = {}
    /\ controllers = [id \in Ids |-> {}]
    /\ targetsByController = EmptyIndex.targetsByController
    /\ targetsByIdentifier = EmptyIndex.targetsByIdentifier
    /\ targetsByTargetName = EmptyIndex.targetsByTargetName
    /\ controllerOriginalMethods = {}
    /\ actionToElementsMap = EmptyIndex.actionToElementsMap
    /\ actionToElementsKeys = {}
    /\ elementToActionsMap = EmptyIndex.elementToActionsMap
    /\ identifierToActionElementsMap = EmptyIndex.identifierToActionElementsMap
    /\ actionElementToIdentifiersMap = EmptyIndex.actionElementToIdentifiersMap
    /\ proxyMethods = {}
    /\ throttleT = "idle"
    /\ throttleA = "idle"
    /\ patched = {}
    /\ portalOutlets = [c \in Ctrls |-> {}]
    /\ connectedOutlets = [c \in Ctrls |-> {}]
    /\ other = EmptyRegistry
    /\ calls = <<>>
    /\ ran = [targets |-> 0, actions |-> 0]
    /\ hooks = <<>>
    /\ eventParams = <<>>
    /\ errors = 0
    /\ thrown = FALSE

\* ... and no instance has a method that throws.
InitRelay ==
    /\ InitFields
    /\ throwing = {}
    /\ lookup = IdleLookup("part_003")
    /\ told = Untracked

\* The elements the author has built, none of them in the relay's subtree yet:
\* e2 is a target "content" of identifier a, e1 has no attribute.
Init ==
    /\ inDoc = {}
    /\ tattr = [e \in Elems |->
                   [id \in Ids |-> IF e = "e2" /\ id = "a" THEN "content"
                                   ELSE NoName]]
    /\ vattr = [e \in Elems |-> <<>>]
    /\ pattr = [e \in Elems |-> <<>>]
    /\ dattr = NoParams
    /\ InitRelay

\* The author may leave at most MaxPending records undelivered.
MayMutate == Len(pending) < MaxPending

Connect == ~isConnected /\ Apply(connect(Cur))

Disconnect ==
    /\ isConnected
    /\ Apply(disconnect([Cur EXCEPT !.told = Leaving(@, Ctrls)]))

Sync(c) ==
    /\ c \in Ctrls
    /\ Apply(sync([Cur EXCEPT !.told = Entering(@, c)], c))

Unsync(c) ==
    /\ c \in Ctrls
    /\ Apply(unsync([Cur EXCEPT !.told = Leaving(@, {c})], c))

\* The observer's microtask.
Deliver == pending # <<>> /\ Apply(handleMutations(Cur))

\* The trailing timers of the two throttles; timers run after the microtasks.
TimerTargets ==
    /\ throttleT = "scheduled" /\ pending = <<>>
    /\ Apply(execSearchTargets(Cur))

TimerActions ==
    /\ throttleA = "scheduled" /\ throttleT # "scheduled" /\ pending = <<>>
    /\ Apply(execSearchActions(Cur))

\* More than the delay passes with no timer armed.
Tick ==
    /\ throttleT # "scheduled" /\ throttleA # "scheduled"
    /\ throttleT = "recent" \/ throttleA = "recent"
    /\ Apply(elapse(Cur))

InsertElement(e) == e \notin inDoc /\ MayMutate /\ Apply(insertElement(Cur, e))

RemoveElement(e) == e \in inDoc /\ MayMutate /\ Apply(removeElement(Cur, e))

SetTargetAttribute(e, id, value) ==
    /\ tattr[e][id] # value /\ MayMutate
    /\ Apply(setTargetAttribute(Cur, e, id, value))

InsertSubtree(root) ==
    /\ root \notin inDoc /\ MayMutate
    /\ Apply(insertSubtree(Cur, root))

RemoveSubtree(root) ==
    /\ root \in inDoc /\ MayMutate
    /\ Apply(removeSubtree(Cur, root))

\* The author writes the action attribute; the tokens an element carries are
\* bounded by MaxTokens.
SetActionAttribute(e, value) ==
    /\ vattr[e] # value /\ MayMutate
    /\ Len(value) + Len(pattr[e]) <= MaxTokens
    /\ Apply(setActionAttribute(Cur, e, value))

\* A user event on an element of the connected relay's subtree.
Dispatch(e, event) ==
    /\ isConnected /\ e \in inDoc /\ pending = <<>>
    /\ Apply(dispatch(Cur, e, event))

\* The framework tells a component that a relay became its outlet, or ceased
\* to be one; it tells each of the two once, and in turn.
PortalOutletConnected(o, c) ==
    /\ o \notin connectedOutlets[c]
    /\ Apply([mixinPortalOutletConnected(Cur, o, c)
                EXCEPT !.connectedOutlets[c] = @ \cup {o}])

PortalOutletDisconnected(o, c) ==
    /\ o \in connectedOutlets[c]
    /\ Apply([mixinPortalOutletDisconnected(Cur, o, c)
                EXCEPT !.connectedOutlets[c] = @ \ {o}])

\* The framework disconnects a component; it reports the outlets as
\* disconnected afterwards.
ComponentDisconnect(c) == c \in Ctrls /\ Apply(mixinDisconnect(Cur, c))

\* The lookups: the clock is bounded by MaxTime, the timeouts and the poll
\* intervals a caller may pass by Timeouts and Polls.
MaxTime == 5
Timeouts == {0, 2}
Polls == {1, 2}

Tock ==
    /\ lookup.now < MaxTime
    /\ Apply([Cur EXCEPT !.lookup.now = @ + 1])

\* A Resolvable instance of the identifier connects somewhere in the
\* application (part_000 lines 15-20), here on the element asked about or
\* elsewhere; the instance on the element disconnects.
ResolvableConnect(here) ==
    /\ here \in BOOLEAN
    /\ here => ~lookup.live
    /\ ~here => ~lookup.app
    /\ Apply([Cur EXCEPT !.lookup.app = TRUE,
                         !.lookup.live = @ \/ here])

ResolvableDisconnect ==
    /\ lookup.live
    /\ Apply([Cur EXCEPT !.lookup.live = FALSE])

NothingAsked == lookup.inner.state = "none" /\ lookup.outer.state = "none"

CallGetControllerAsync(timeout, poll) ==
    /\ NothingAsked
    /\ Apply([Cur EXCEPT !.lookup = getControllerAsync(@, timeout, poll)])

CallGetAsync(timeout, poll) ==
    /\ NothingAsked
    /\ Apply([Cur EXCEPT !.lookup = getAsync(@, timeout, poll)])

\* The timers of the two polls.
TimerCheckController ==
    /\ lookup.inner.armed /\ lookup.now >= lookup.inner.due
    /\ Apply([Cur EXCEPT !.lookup = CheckControllerOf(@)])

TimerCheckApp ==
    /\ lookup.outer.armed /\ lookup.now >= lookup.outer.due
    /\ Apply([Cur EXCEPT !.lookup = checkApp(@)])

\* The second relay is disconnected.
OtherDisconnect ==
    /\ other # EmptyRegistry
    /\ Apply(otherDisconnect(Cur))

(***************************************************************************)
(* Specifications.                                                         *)
(***************************************************************************)
\* Targets: two instances of identifier a; the author builds e1 freely and
\* moves e2, a target of a, in and out of the subtree.
Next ==
    \/ Connect
    \/ Disconnect
    \/ \E c \in {"c1", "c2"} : Sync(c)
    \/ \E c \in {"c1", "c2"} : Unsync(c)
    \/ Deliver
    \/ TimerTargets
    \/ TimerActions
    \/ Tick
    \/ \E e \in Elems : InsertElement(e)
    \/ \E e \in Elems : RemoveElement(e)
    \/ \E v \in Names \cup {NoName} : SetTargetAttribute("e1", "a", v)

Spec == Init /\ [][Next]_vars

\* Targets of one element: two instances of a; the author moves e1 in and out
\* of the subtree and writes, rewrites and removes its data-a-target.
NextBind ==
    \/ Connect
    \/ Disconnect
    \/ \E c \in {"c1", "c2"} : Sync(c)
    \/ \E c \in {"c1", "c2"} : Unsync(c)
    \/ Deliver
    \/ TimerTargets
    \/ TimerActions
    \/ Tick
    \/ InsertElement("e1")
    \/ RemoveElement("e1")
    \/ \E v \in Names \cup {NoName} : SetTargetAttribute("e1", "a", v)

SpecBind == Init /\ [][NextBind]_vars

\* A growing document: two instances of a are synced, nobody is unsynced and
\* the relay stays connected once it is; the author only inserts elements
\* (e2 is a target of a).
NextGrow ==
    \/ Connect
    \/ \E c \in {"c1", "c2"} : Sync(c)
    \/ Deliver
    \/ TimerTargets
    \/ TimerActions
    \/ Tick
    \/ \E e \in Elems : InsertElement(e)

SpecGrow == Init /\ [][NextGrow]_vars

\* Actions of one identifier: one instance of a; the author writes and erases
\* the directive click->a#x on e1 and moves e1 and e2 in and out of the
\* subtree; e2 carries the directive click->z#x of an identifier nobody owns.
InitActions ==
    /\ inDoc = {}
    /\ tattr = [e \in Elems |-> [id \in Ids |-> NoName]]
    /\ vattr = [e \in Elems |-> IF e = "e2" THEN <<"click->z#x">> ELSE <<>>]
    /\ pattr = [e \in Elems |-> <<>>]
    /\ dattr = NoParams
    /\ InitRelay

NextActions ==
    \/ Connect
    \/ Disconnect
    \/ Sync("c1")
    \/ Unsync("c1")
    \/ Deliver
    \/ TimerTargets
    \/ TimerActions
    \/ Tick
    \/ \E e \in Elems : InsertElement(e)
    \/ \E e \in Elems : RemoveElement(e)
    \/ \E v \in {<<>>, <<"click->a#x">>} : SetActionAttribute("e1", v)
    \/ \E e \in Elems : Dispatch(e, "click")

SpecActions == InitActions /\ [][NextActions]_vars

\* Actions of two identifiers on one element: an instance of a and one of b;
\* the author writes click->a#x, or click->a#x and click->b#y, on e1.
InitShared ==
    /\ inDoc = {}
    /\ tattr = [e \in Elems |-> [id \in Ids |-> NoName]]
    /\ vattr = [e \in Elems |-> <<>>]
    /\ pattr = [e \in Elems |-> <<>>]
    /\ dattr = NoParams
    /\ InitRelay

NextShared ==
    \/ Connect
    \/ Disconnect
    \/ \E c \in {"c1", "c3"} : Sync(c)
    \/ \E c \in {"c1", "c3"} : Unsync(c)
    \/ Deliver
    \/ TimerTargets
    \/ TimerActions
    \/ Tick
    \/ InsertElement("e1")
    \/ RemoveElement("e1")
    \/ \E v \in {<<>>, <<"click->a#x">>, <<"click->a#x", "click->b#y">>} :
          SetActionAttribute("e1", v)
    \/ Dispatch("e1", "click")

SpecShared == InitShared /\ [][NextShared]_vars

\* sync and unsync on a connected relay over a document that nobody else
\* changes: e1 may carry directives of a, of b and of the relay itself, e2 is
\* a target of a.
InitSync ==
    /\ inDoc \in SUBSET Elems
    /\ tattr = [e \in Elems |->
                   [id \in Ids |-> IF e = "e2" /\ id = "a" THEN "content"
                                   ELSE NoName]]
    /\ \E v \in {<<>>, <<"click->a#x">>, <<"click->a#x", "click->b#y">>,
                <<"click->portal#refresh", "click->a#x">>} :
          vattr = [e \in Elems |-> IF e = "e1" THEN v ELSE <<>>]
    /\ pattr = [e \in Elems |-> <<>>]
    /\ dattr = NoParams
    /\ InitRelay

NextSync ==
    \/ Connect
    \/ \E c \in Ctrls : isConnected /\ Sync(c)
    \/ \E c \in Ctrls : isConnected /\ Unsync(c)
    \/ Deliver
    \/ TimerTargets
    \/ TimerActions
    \/ Tick

SpecSync == InitSync /\ [][NextSync]_vars

\* Instances that throw: two instances of a, the first of which may be one
\* whose methods throw; e1 is a target "content" of a, the author writes and erases
\* click->a#x on it and moves it in and out of the subtree.
InitThrow ==
    /\ inDoc = {}
    /\ tattr = [e \in Elems |->
                   [id \in Ids |-> IF e = "e1" /\ id = "a" THEN "content"
                                   ELSE NoName]]
    /\ vattr = [e \in Elems |-> <<>>]
    /\ pattr = [e \in Elems |-> <<>>]
    /\ dattr = NoParams
    /\ InitFields
    /\ throwing \in SUBSET {"c1"}
    /\ lookup = IdleLookup("part_003")
    /\ told = Untracked

NextThrow ==
    \/ Connect
    \/ Disconnect
    \/ \E c \in {"c1", "c2"} : Sync(c)
    \/ \E c \in {"c1", "c2"} : Unsync(c)
    \/ Deliver
    \/ TimerTargets
    \/ TimerActions
    \/ Tick
    \/ InsertElement("e1")
    \/ RemoveElement("e1")
    \/ \E v \in {<<>>, <<"click->a#x">>} : SetActionAttribute("e1", v)
    \/ Dispatch("e1", "click")

SpecThrow == InitThrow /\ [][NextThrow]_vars

\* Dispatch on one element that stays in the subtree: an instance of a and
\* one of b; the author rewrites the action attribute of e1 and the user
\* clicks on it.
InitHandler ==
    /\ inDoc = {"e1"}
    /\ tattr = [e \in Elems |-> [id \in Ids |-> NoName]]
    /\ vattr = [e \in Elems |-> <<>>]
    /\ pattr = [e \in Elems |-> <<>>]
    /\ dattr = NoParams
    /\ InitRelay

NextHandler ==
    \/ Connect
    \/ Disconnect
    \/ \E c \in {"c1", "c3"} : Sync(c)
    \/ \E c \in {"c1", "c3"} : Unsync(c)
    \/ Deliver
    \/ TimerTargets
    \/ TimerActions
    \/ Tick
    \/ \E v \in {<<>>, <<"click->a#x">>, <<"click->a#x", "click->b#y">>} :
          SetActionAttribute("e1", v)
    \/ Dispatch("e1", "click")

SpecHandler == InitHandler /\ [][NextHandler]_vars

\* Parameters of an action: e1 is in the subtree and carries click->a#x, alone
\* or with click->b#x, and up to MaxParams "-param" attributes; an instance of
\* a and one of b are synced and the user clicks e1.
MaxParams == 2
ParamAttributes == [name : ParamAttrs, value : ParamValues]
ParamLists ==
    {s \in UNION {[1..n -> ParamAttributes] : n \in 0..MaxParams} :
        \A i, j \in 1..Len(s) : i # j => s[i].name # s[j].name}

InitParams ==
    /\ inDoc = {"e1"}
    /\ tattr = [e \in Elems |-> [id \in Ids |-> NoName]]
    /\ \E v \in {<<"click->a#x">>, <<"click->a#x", "click->b#x">>} :
          vattr = [e \in Elems |-> IF e = "e1" THEN v ELSE <<>>]
    /\ pattr = [e \in Elems |-> <<>>]
    /\ \E l \in ParamLists :
          dattr = [e \in Elems |-> IF e = "e1" THEN l ELSE <<>>]
    /\ InitRelay

NextParams ==
    \/ Connect
    \/ \E c \in {"c1", "c3"} : Sync(c)
    \/ Deliver
    \/ TimerTargets
    \/ TimerActions
    \/ Tick
    \/ Dispatch("e1", "click")

SpecParams == InitParams /\ [][NextParams]_vars

\* Components with the portals mixin: c1 and c2 of identifier a reach the two
\* relays through their outlet callbacks only; the author moves e2, a target
\* of a, in and out of the first relay's subtree.
NextMixin ==
    \/ Connect
    \/ Disconnect
    \/ OtherDisconnect
    \/ \E o \in Outlets, c \in {"c1", "c2"} : PortalOutletConnected(o, c)
    \/ \E o \in Outlets, c \in {"c1", "c2"} : PortalOutletDisconnected(o, c)
    \/ \E c \in {"c1", "c2"} : ComponentDisconnect(c)
    \/ Deliver
    \/ TimerTargets
    \/ TimerActions
    \/ Tick
    \/ InsertElement("e2")
    \/ RemoveElement("e2")

SpecMixin == Init /\ [][NextMixin]_vars

\* The lookups: one call of getControllerAsync or of getAsync, with either
\* body of getControllerAsync linked, while time passes and instances of the
\* identifier connect and disconnect.
InitLookup ==
    /\ inDoc = {}
    /\ tattr = [e \in Elems |-> [id \in Ids |-> NoName]]
    /\ vattr = [e \in Elems |-> <<>>]
    /\ pattr = [e \in Elems |-> <<>>]
    /\ dattr = NoParams
    /\ InitFields
    /\ throwing = {}
    /\ \E version \in UtilsVersions : lookup = IdleLookup(version)
    /\ told = Untracked

NextLookup ==
    \/ Tock
    \/ \E here \in BOOLEAN : ResolvableConnect(here)
    \/ ResolvableDisconnect
    \/ \E timeout \in Timeouts, poll \in Polls :
          CallGetControllerAsync(timeout, poll)
    \/ \E timeout \in Timeouts, poll \in Polls : CallGetAsync(timeout, poll)
    \/ TimerCheckController
    \/ TimerCheckApp

SpecLookup == InitLookup /\ [][NextLookup]_vars

\* Directives that share a method: e1 stays in the subtree and carries
\* click->a#x alone, with keyup->b#x or with keyup->a#x; instances of a and of
\* b are synced and unsynced and the user clicks or presses a key on e1.
InitSameMethod ==
    /\ inDoc = {"e1"}
    /\ tattr = [e \in Elems |-> [id \in Ids |-> NoName]]
    /\ \E v \in {<<"click->a#x">>, <<"click->a#x", "keyup->b#x">>,
                <<"click->a#x", "keyup->a#x">>} :
          vattr = [e \in Elems |-> IF e = "e1" THEN v ELSE <<>>]
    /\ pattr = [e \in Elems |-> <<>>]
    /\ dattr = NoParams
    /\ InitRelay

NextSameMethod ==
    \/ Connect
    \/ Disconnect
    \/ \E c \in Ctrls : Sync(c)
    \/ \E c \in Ctrls : Unsync(c)
    \/ Deliver
    \/ TimerTargets
    \/ TimerActions
    \/ Tick
    \/ \E event \in Events : Dispatch("e1", event)

SpecSameMethod == InitSameMethod /\ [][NextSameMethod]_vars

\* The hooks of one element over time: the history of the target hooks is
\* kept from the start; one instance of a is synced and unsynced, and the
\* author moves e1 in and out of the subtree and writes, rewrites and removes
\* its data-a-target.
InitHooks ==
    /\ inDoc = {}
    /\ tattr = [e \in Elems |->
                   [id \in Ids |-> IF e = "e2" /\ id = "a" THEN "content"
                                   ELSE NoName]]
    /\ vattr = [e \in Elems |-> <<>>]
    /\ pattr = [e \in Elems |-> <<>>]
    /\ dattr = NoParams
    /\ InitFields
    /\ throwing = {}
    /\ lookup = IdleLookup("part_003")
    /\ told = NoCalls

NextHooks ==
    \/ Connect
    \/ Disconnect
    \/ Sync("c1")
    \/ Unsync("c1")
    \/ Deliver
    \/ TimerTargets
    \/ TimerActions
    \/ Tick
    \/ InsertElement("e1")
    \/ RemoveElement("e1")
    \/ \E v \in Names \cup {NoName} : SetTargetAttribute("e1", "a", v)

SpecHooks == InitHooks /\ [][NextHooks]_vars

\* Instances that leave: e1 is a target "content" of a and carries
\* click->a#x; two instances of a are synced and unsynced, the relay connects
\* and disconnects, e1 moves in and out of the subtree and the user clicks
\* it.  The history of the calls is kept from the start.
InitLeave ==
    /\ inDoc = {}
    /\ tattr = [e \in Elems |->
                   [id \in Ids |-> IF e = "e1" /\ id = "a" THEN "content"
                                   ELSE NoName]]
    /\ vattr = [e \in Elems |-> IF e = "e1" THEN <<"click->a#x">> ELSE <<>>]
    /\ pattr = [e \in Elems |-> <<>>]
    /\ dattr = NoParams
    /\ InitFields
    /\ throwing = {}
    /\ lookup = IdleLookup("part_003")
    /\ told = NoCalls

NextLeave ==
    \/ Connect
    \/ Disconnect
    \/ \E c \in {"c1", "c2"} : Sync(c)
    \/ \E c \in {"c1", "c2"} : Unsync(c)
    \/ Deliver
    \/ TimerTargets
    \/ TimerActions
    \/ Tick
    \/ InsertElement("e1")
    \/ RemoveElement("e1")
    \/ Dispatch("e1", "click")

SpecLeave == InitLeave /\ [][NextLeave]_vars

\* Subtrees: e2, a child of e1, is a target "content" of a and carries
\* click->a#x; e1 has no attribute.  The author moves e1, with e2 below it, in
\* and out of the relay's subtree; one instance of a is synced.
InitTree ==
    /\ inDoc = {}
    /\ tattr = [e \in Elems |->
                   [id \in Ids |-> IF e = "e2" /\ id = "a" THEN "content"
                                   ELSE NoName]]
    /\ vattr = [e \in Elems |-> IF e = "e2" THEN <<"click->a#x">> ELSE <<>>]
    /\ pattr = [e \in Elems |-> <<>>]
    /\ dattr = NoParams
    /\ InitRelay

NextTree ==
    \/ Connect
    \/ Disconnect
    \/ Sync("c1")
    \/ Deliver
    \/ TimerTargets
    \/ TimerActions
    \/ Tick
    \/ InsertSubtree("e1")
    \/ RemoveSubtree("e1")

SpecTree == InitTree /\ [][NextTree]_vars

\* Hooks that throw: as SpecBind, with e1 a target "content" of a from the
\* start and c1 possibly an instance whose methods throw.
SpecThrowBind == InitThrow /\ [][NextBind]_vars

(***************************************************************************)
(* Properties.                                                             *)
(***************************************************************************)
\* The calls of `method` with `element` the step made on instance c.
Count(h, c, method, element) ==
    Cardinality({i \in 1..Len(h) :
                    h[i] = [controller |-> c, method |-> method,
                            element |-> element]})

Owned == SeqToSet(identifiers)

\* Nothing is left to do for the relay: no record is queued, no trailing sweep
\* is armed and every owned identifier has been swept.
Settled ==
    /\ isConnected
    /\ pending = <<>>
    /\ throttleT # "scheduled" /\ throttleA # "scheduled"
    /\ Owned \subseteq searchedIdentifiersForTargets
    /\ Owned \subseteq searchedIdentifiersForActions

\* C1: when the relay is connected and settled, an element of the subtree is
\* recorded in the target index under (id, n), for an owned id, exactly when
\* it carries data-<id>-target="n".
C1_IndexMatchesTargetAttributes ==
    Settled =>
        \A e \in inDoc, id \in Owned, n \in Names :
            (e \in targetsByTargetName[id][n]) <=> (tattr[e][id] = n)

\* C6: with id owned by exactly one instance c of the connected relay, the
\* delivery of the record of an inserted element that carries
\* data-<id>-target="n" calls <n>TargetConnected(element) on c exactly once,
\* and the delivery of the record of its removal calls
\* <n>TargetDisconnected(element) on c exactly once.
C6_OneConnectedAndOneDisconnectedCall ==
    \A e \in Elems, c \in Ctrls :
        LET id == IdOf[c]
            n == tattr[e][id]
            after == handleMutations(Cur)
        IN /\ (/\ isConnected /\ controllers[id] = {c} /\ n # NoName
               /\ e \in inDoc /\ pending = <<ChildRecord("added", e)>>)
              => Count(after.hooks, c, getTargetConnectedMethodName(n), e) = 1
           /\ (/\ isConnected /\ controllers[id] = {c} /\ n # NoName
               /\ e \notin inDoc /\ e \in targetsByController[c]
               /\ pending = <<ChildRecord("removed", e)>>)
              => Count(after.hooks, c, getTargetDisconnectedMethodName(n), e) = 1

\* C7: the delivery of the record of the removal of data-<id>-target="o" from
\* an element bound for the owned identifier id removes the element from the
\* index of id and calls <o>TargetDisconnected(element) exactly once on every
\* instance that had been notified of the element.
C7_UnbindOnAttributeRemoval ==
    \A e \in Elems, id \in Owned, o \in Names :
        LET after == handleMutations(Cur)
        IN (/\ pending = <<TargetAttrRecord(e, id, o)>>
            /\ tattr[e][id] = NoName
            /\ e \in targetsByIdentifier[id]
            /\ e \in targetsByTargetName[id][o])
           => /\ e \notin after.targetsByIdentifier[id]
              /\ e \notin after.targetsByTargetName[id][o]
              /\ \A c \in controllers[id] :
                    e \in targetsByController[c] =>
                        Count(after.hooks, c,
                              getTargetDisconnectedMethodName(o), e) = 1

TargetState(r) ==
    <<r.targetsByIdentifier, r.targetsByTargetName, r.targetsByController>>

\* C9: addTarget is idempotent.  In every reachable state, a first call of
\* addTarget(element, identifier) calls <name>TargetConnected exactly once on
\* each instance of the identifier not yet notified of the element and on no
\* other; a second call right after it calls nothing and leaves the target
\* index and the notified sets as the first call left them; and once the first
\* call has bound the element, whatever the attribute has become by the second
\* call, that call calls nothing and leaves the notified sets alone.  The same holds for addTarget(element).
C9_AddTargetIdempotent ==
    \A e \in Elems, id \in Ids :
        LET n == tattr[e][id]
            first == addTargetFor(Cur, e, id)
            second == addTargetFor([first EXCEPT !.hooks = <<>>], e, id)
            firstAll == addTarget(Cur, e)
            secondAll == addTarget([firstAll EXCEPT !.hooks = <<>>], e)
            due == IF n = NoName THEN {}
                   ELSE {c \in controllers[id] : e \notin targetsByController[c]}
        IN /\ Len(first.hooks) = Cardinality(due)
           /\ \A c \in due :
                 Count(first.hooks, c, getTargetConnectedMethodName(n), e) = 1
           /\ second.hooks = <<>>
           /\ TargetState(second) = TargetState(first)
           /\ secondAll.hooks = <<>>
           /\ TargetState(secondAll) = TargetState(firstAll)
           /\ \A v \in IF n = NoName THEN {} ELSE Names \cup {NoName} :
                 LET later == addTargetFor(
                                  [first EXCEPT !.hooks = <<>>,
                                                !.tattr[e][id] = v], e, id)
                 IN /\ later.hooks = <<>>
                    /\ later.targetsByController = first.targetsByController

\* C9 witness: sync of a second instance has called addTarget again for an
\* element the first instance had been notified of, and only the second
\* instance was called.
C9_Witness ==
    /\ controllers["a"] = {"c1", "c2"}
    /\ \E e \in Elems :
          /\ e \in targetsByController["c1"]
          /\ hooks = <<[controller |-> "c2",
                        method |-> getTargetConnectedMethodName(tattr[e]["a"]),
                        element |-> e]>>

\* An element of the subtree carries a directive of an owned identifier with
\* method m, on its action attribute or on its portalled attribute.
Carries(m) ==
    \E e \in inDoc :
        LET actions == parseActions(Cur, e)
        IN \E i \in 1..Len(actions) :
              actions[i].identifier \in Owned /\ actions[i].method = m

\* C2: when the relay is connected and settled, the handler __proxyAction__<m>
\* exists exactly when an element of the subtree carries a directive of an
\* owned identifier with method m.
C2_HandlerExistsIffDirectiveCarried ==
    Settled =>
        \A m \in Methods :
            (getProxyActionName(m) \in proxyMethods) <=> Carries(m)

\* In state r the directive d of element e is forwarded: it is on the
\* portalled attribute, its proxy token is on the action attribute, the
\* handler exists, and the event reaches every instance of its identifier.
Forwarded(r, e, d) ==
    LET action == parseActionToken(d)
        proxyAction == toProxyAction(action)
        called == dispatch([r EXCEPT !.hooks = <<>>], e, action.event).hooks
    IN /\ InSeq(d, r.pattr[e])
       /\ InSeq(toString(proxyAction), r.vattr[e])
       /\ proxyAction.method \in r.proxyMethods
       /\ \A c \in r.controllers[action.identifier] :
             Count(called, c, action.method, e) >= 1

\* C3: when unsync removes the last instance of an identifier from the
\* connected relay, every directive of another owned identifier that was
\* forwarded is forwarded still.
C3_UnsyncKeepsOtherIdentifiersForwarded ==
    \A c \in Ctrls :
        LET after == unsync(Cur, c)
        IN (isConnected /\ controllers[IdOf[c]] = {c}) =>
              \A e \in inDoc, d \in Directives :
                  (/\ parseActionToken(d).identifier \in Owned \ {IdOf[c]}
                   /\ Forwarded(Cur, e, d))
                  => Forwarded(after, e, d)

\* C4: after disconnect() the registry, the target index, the action index
\* and the accessor-patch registry are empty, the relay has no forwarding
\* handler, no element of the subtree carries a proxy token or the portalled
\* attribute, and no instance is left patched.
C4_DisconnectClearsEverything ==
    isConnected =>
        LET after == disconnect(Cur)
        IN /\ after.identifiers = <<>>
           /\ after.controllers = [id \in Ids |-> {}]
           /\ TargetState(after) =
                 <<EmptyIndex.targetsByIdentifier, EmptyIndex.targetsByTargetName,
                   EmptyIndex.targetsByController>>
           /\ after.actionToElementsKeys = {}
           /\ after.elementToActionsMap = EmptyIndex.elementToActionsMap
           /\ after.identifierToActionElementsMap =
                 EmptyIndex.identifierToActionElementsMap
           /\ after.actionElementToIdentifiersMap =
                 EmptyIndex.actionElementToIdentifiersMap
           /\ after.controllerOriginalMethods = {}
           /\ after.patched = {}
           /\ after.proxyMethods = {}
           /\ \A e \in after.inDoc :
                 /\ after.pattr[e] = <<>>
                 /\ \A i \in 1..Len(after.vattr[e]) :
                       parseActionToken(after.vattr[e][i]).method
                           \notin ProxyMethodNames

\* A relay with the registry of r and nothing else, after one sweep of the
\* document of r.
FreshSweep(r) ==
    searchActions(searchTargets(
        [r EXCEPT !.targetsByController = EmptyIndex.targetsByController,
                  !.targetsByIdentifier = EmptyIndex.targetsByIdentifier,
                  !.targetsByTargetName = EmptyIndex.targetsByTargetName,
                  !.actionToElementsMap = EmptyIndex.actionToElementsMap,
                  !.actionToElementsKeys = {},
                  !.elementToActionsMap = EmptyIndex.elementToActionsMap,
                  !.identifierToActionElementsMap =
                      EmptyIndex.identifierToActionElementsMap,
                  !.actionElementToIdentifiersMap =
                      EmptyIndex.actionElementToIdentifiersMap,
                  !.searchedIdentifiersForTargets = {},
                  !.searchedIdentifiersForActions = {},
                  !.proxyMethods = {}]))

\* The target index, the action index, the handlers and the two action
\* attributes of every element.
RelayState(r) ==
    <<r.targetsByIdentifier, r.targetsByTargetName, r.actionToElementsMap,
      r.elementToActionsMap, r.identifierToActionElementsMap,
      r.actionElementToIdentifiersMap, r.proxyMethods, r.vattr, r.pattr>>

\* C5: after any sequence of sync and unsync on the connected relay, once it
\* is settled, its target index and its action state are those of an empty
\* relay that sweeps the document once for the owned identifiers.
C5_StateEqualsFreshSweep ==
    Settled => RelayState(Cur) = RelayState(FreshSweep(Cur))

\* C8: on an element of the settled relay's subtree that carries the single
\* forwarded directive ev->id#m of an owned identifier, one dispatch of ev
\* calls m exactly once on each instance of id and calls nothing else.
C8_DispatchCallsEachInstanceOnce ==
    \A e \in inDoc, d \in Directives :
        LET action == parseActionToken(d)
            after == dispatch(Cur, e, action.event)
        IN (/\ Settled
            /\ action.identifier \in Owned
            /\ pattr[e] = <<d>>
            /\ vattr[e] = <<toString(toProxyAction(action))>>)
           => /\ Len(after.hooks) = Cardinality(controllers[action.identifier])
              /\ \A c \in controllers[action.identifier] :
                    Count(after.hooks, c, action.method, e) = 1

\* The state the relay keeps for identifier id: ownership, the target index,
\* the action index, the sweep markers and the elements rewritten for it.
IdentifierState(r, id) ==
    [owned |-> InSeq(id, r.identifiers),
     targetsByIdentifier |-> r.targetsByIdentifier[id],
     targetsByTargetName |-> r.targetsByTargetName[id],
     actionElements |-> r.identifierToActionElementsMap[id],
     recorded |-> {e \in Elems : id \in r.actionElementToIdentifiersMap[e]},
     rewritten |-> {e \in r.inDoc :
                       \E i \in 1..Len(r.pattr[e]) :
                           parseActionToken(r.pattr[e][i]).identifier = id},
     sweptTargets |-> id \in r.searchedIdentifiersForTargets,
     sweptActions |-> id \in r.searchedIdentifiersForActions]

\* C11: unsync of the last instance of id leaves id unowned, its target
\* attribute out of the observer's filter, no entry of the target index for
\* id, no element recorded or rewritten as forwarded for id and no sweep
\* marker for id; unsync of an instance while another instance of id stays
\* registered removes none of this.
C11_UnsyncOfLastInstanceForgetsIdentifier ==
    \A c \in Ctrls :
        LET id == IdOf[c]
            after == unsync(Cur, c)
        IN /\ controllers[id] = {c} =>
                 /\ IdentifierState(after, id) =
                       [owned |-> FALSE,
                        targetsByIdentifier |-> {},
                        targetsByTargetName |-> [n \in Names |-> {}],
                        actionElements |-> {},
                        recorded |-> {},
                        rewritten |-> {},
                        sweptTargets |-> FALSE,
                        sweptActions |-> FALSE]
                 /\ getTargetAttributeName(id) \notin after.filter
           /\ (c \in controllers[id] /\ controllers[id] # {c}) =>
                 /\ IdentifierState(after, id) = IdentifierState(Cur, id)
                 /\ getTargetAttributeName(id) \in after.filter

\* What unsync of an instance that is not registered must leave alone.
RegistryState(r) ==
    <<r.identifiers, r.controllers, TargetState(r), r.actionToElementsMap,
      r.actionToElementsKeys, r.elementToActionsMap,
      r.identifierToActionElementsMap, r.actionElementToIdentifiersMap,
      r.proxyMethods, r.patched, r.vattr, r.pattr, r.pending>>

\* C12: unsync of an instance that is not registered throws nothing and
\* leaves the owned set, the instance sets, the target index, the action
\* index, the handlers, the accessor patches and the undelivered records
\* unchanged; a second unsync of an instance changes nothing after the first.
C12_UnsyncOfUnregisteredInstanceChangesNothing ==
    \A c \in Ctrls :
        LET once == unsync(Cur, c)
            twice == unsync(once, c)
        IN /\ c \notin controllers[IdOf[c]] =>
                 /\ ~once.thrown
                 /\ RegistryState(once) = RegistryState(Cur)
           /\ ~twice.thrown
           /\ RegistryState(twice) = RegistryState(once)

\* The fields of the relay and the attributes it writes.
WholeRelay(r) ==
    <<RegistryState(r), r.isConnected, r.observer, r.filter,
      r.searchedIdentifiersForTargets, r.searchedIdentifiersForActions,
      r.controllerOriginalMethods, r.throttleT, r.throttleA>>

\* C13: sync of an instance that is registered throws, and the relay's
\* registry, indices, handlers and observer are after the failed call what
\* they were before it.
C13_SecondSyncThrowsAndChangesNothing ==
    \A c \in Ctrls :
        LET after == sync(Cur, c)
        IN c \in controllers[IdOf[c]] =>
              /\ after.thrown
              /\ WholeRelay(after) = WholeRelay(Cur)

\* C14: in every reachable state an instance that declares targets has its
\* target accessors patched exactly when it is registered with the relay.
C14_PatchedIffRegistered ==
    \A c \in Ctrls :
        DeclaredTargets[c] # {} =>
            (c \in patched <=> c \in controllers[IdOf[c]])

\* C14 witness: c1 has been unsynced (or was never synced) while c2 is
\* registered on the connected relay and has been notified of a target.
C14_Witness ==
    /\ isConnected
    /\ controllers["a"] = {"c2"}
    /\ patched = {"c2"}
    /\ targetsByController["c2"] # {}

\* The calls of h that threw.
ThrownCalls(h) == Cardinality({i \in 1..Len(h) : h[i].controller \in throwing})

\* Step r ended without a thrown error, caught one error for each call that
\* threw, and is otherwise the step q that the same operation makes when no
\* method throws: the same calls in the same order and the same state.
SameAsWithoutThrow(r, q) ==
    /\ ~r.thrown
    /\ r.errors = ThrownCalls(r.hooks)
    /\ r.hooks = q.hooks
    /\ [r EXCEPT !.throwing = {}, !.errors = 0] = q

\* C15: a hook that throws during the fan-out of addTarget, of removeTarget
\* or of the bulk disconnect does not leave the relay: the delivery of the
\* queued records, the catch-up of sync and disconnect() end without an
\* error, make every call they make when no hook throws (the other instances
\* and the later records included) and leave the same state.
C15_ThrowingHookIsContained ==
    LET quiet == [Cur EXCEPT !.throwing = {}]
    IN /\ SameAsWithoutThrow(handleMutations(Cur), handleMutations(quiet))
       /\ SameAsWithoutThrow(disconnect(Cur), disconnect(quiet))
       /\ \A c \in Ctrls \ controllerOriginalMethods :
             SameAsWithoutThrow(sync(Cur, c), sync(quiet, c))

\* C15 witness: the hook of c1 threw and c2 received its call after it.
C15_Witness ==
    /\ throwing = {"c1"}
    /\ errors = 1
    /\ \E m \in {getTargetConnectedMethodName("content"),
                 getTargetDisconnectedMethodName("content")} :
          hooks = <<[controller |-> "c1", method |-> m, element |-> "e1"],
                    [controller |-> "c2", method |-> m, element |-> "e1"]>>

\* C16: an action method that throws during a forwarded dispatch does not
\* leave the forwarding handler: the handler ends without an error and calls
\* the method on every instance it calls when no method throws.
C16_ThrowingActionIsContained ==
    LET quiet == [Cur EXCEPT !.throwing = {}]
    IN \A e \in Elems :
          /\ \A m \in Methods :
                SameAsWithoutThrow(proxyHandler(Cur, m, e),
                                   proxyHandler(quiet, m, e))
          /\ \A event \in Events :
                SameAsWithoutThrow(dispatch(Cur, e, event),
                                   dispatch(quiet, e, event))

\* C16 witness: the method x of c1 threw in a dispatch and x of c2 was called
\* after it.
C16_Witness ==
    /\ throwing = {"c1"}
    /\ errors = 1
    /\ hooks = <<[controller |-> "c1", method |-> "x", element |-> "e1"],
                 [controller |-> "c2", method |-> "x", element |-> "e1"]>>

\* The <name>TargetDisconnected calls of h on instance c for element e.
DisconnectedCalls(h, c, e) ==
    Cardinality({i \in 1..Len(h) :
                    /\ h[i].controller = c
                    /\ h[i].element = e
                    /\ \E n \in Names :
                          h[i].method = getTargetDisconnectedMethodName(n)})

\* C17: disconnect() calls <name>TargetDisconnected(element) exactly once on
\* every registered instance for every element the instance has been told is
\* connected and not yet told is disconnected, and makes no other such call.
C17_DisconnectNotifiesEveryConnectedTarget ==
    isConnected =>
        LET after == disconnect(Cur)
        IN \A c \in Ctrls, e \in Elems :
              c \in controllers[IdOf[c]] =>
                  DisconnectedCalls(after.hooks, c, e) =
                      (IF e \in targetsByController[c] THEN 1 ELSE 0)

\* How many times token t is in the sequence s.
Occurrences(s, t) == Cardinality({i \in 1..Len(s) : s[i] = t})

\* C18: after addActionElement(e) for an element e of the connected relay's
\* subtree, every directive e carried (on either attribute, other than the
\* relay's own __proxyAction__ tokens) for an identifier that is not owned is
\* on the action attribute as often as before and not on the portalled
\* attribute; every directive for an owned identifier is off the action
\* attribute, on the portalled attribute, and on the action attribute as a
\* token of the relay's identifier, of method __proxyAction__<method> and of
\* the same event; and the action attribute holds nothing else.
C18_OwnedDirectivesAreRewritten ==
    \A e \in Elems :
        LET before == vattr[e] \o pattr[e]
            after == addActionElement(Cur, e)
            carried == {d \in Tokens :
                           /\ Occurrences(before, d) > 0
                           /\ parseActionToken(d).method \notin ProxyMethodNames}
            owned == {d \in carried : parseActionToken(d).identifier \in Owned}
        IN (isConnected /\ e \in inDoc /\ before # <<>>) =>
              /\ \A d \in carried \ owned :
                    /\ Occurrences(after.vattr[e], d) = Occurrences(before, d)
                    /\ Occurrences(after.pattr[e], d) = 0
              /\ \A d \in owned :
                    /\ Occurrences(after.vattr[e], d) = 0
                    /\ Occurrences(after.pattr[e], d) > 0
                    /\ \E i \in 1..Len(after.vattr[e]) :
                          LET token == parseActionToken(after.vattr[e][i])
                          IN /\ token.identifier = PortalId
                             /\ token.method =
                                   getProxyActionName(parseActionToken(d).method)
                             /\ token.event = parseActionToken(d).event
              /\ \A i \in 1..Len(after.vattr[e]) :
                    \/ after.vattr[e][i] \in carried \ owned
                    \/ \E d \in owned :
                          after.vattr[e][i] =
                              toString(toProxyAction(parseActionToken(d)))

\* The directives of identifier id and method m that element e carries in
\* state r, on either attribute, counted with their repetitions.
CarriedNow(r, e, id, m) ==
    LET tokens == r.vattr[e] \o r.pattr[e]
    IN Cardinality({i \in 1..Len(tokens) :
                       /\ parseActionToken(tokens[i]).identifier = id
                       /\ parseActionToken(tokens[i]).method = m})

\* C19: the handler of method m, called for an event on element e, calls m
\* once on every instance registered now for the identifier of each directive
\* of method m that e carries now, and calls nothing else; what the action
\* index recorded when e was last processed has no part in it.
C19_HandlerResolvesAtDispatchTime ==
    \A e \in Elems, m \in Methods :
        LET called == proxyHandler(Cur, m, e).hooks
        IN /\ \A i \in 1..Len(called) :
                 called[i].method = m /\ called[i].element = e
           /\ \A c \in Ctrls :
                 Count(called, c, m, e) =
                     (IF c \in controllers[IdOf[c]]
                      THEN CarriedNow(Cur, e, IdOf[c], m) ELSE 0)

\* The directives of owned identifiers that element e carries now.
OwnedDirectivesNow(e) ==
    {d \in Directives :
        /\ Occurrences(vattr[e] \o pattr[e], d) > 0
        /\ parseActionToken(d).identifier \in Owned}

\* C19 witness: a dispatch on e1 has called an instance while the action
\* index records for e1 other directives than the owned ones e1 carries.
C19_Witness ==
    /\ hooks # <<>>
    /\ \A i \in 1..Len(hooks) :
          hooks[i].method \in Methods /\ hooks[i].element = "e1"
    /\ elementToActionsMap["e1"] # OwnedDirectivesNow("e1")

\* The lists the framework's lookup may return for a name: elements l1 and
\* l2 of the instance's own scope.
LocalLists == {<<>>, <<"l1">>, <<"l1", "l2">>, <<"l2", "l1">>}

\* C20: for a registered instance c of identifier id and a declared name n,
\* with P the elements the target index holds under (id, n) and L the local
\* targets: the 'has' accessor is true exactly when P or L is not empty, the
\* singular accessor returns the first of P, else the first of L, else fails
\* with the missing-target error, and the plural accessor returns P and then L.
C20_PatchedAccessorsMergePortalAndLocal ==
    \A c \in Ctrls, L \in LocalLists :
        \A n \in DeclaredTargets[c] :
            LET P == ElemSeq(targetsByTargetName[IdOf[c]][n])
            IN c \in controllers[IdOf[c]] =>
                  /\ hasTargetGetter(Cur, c, n, L) <=> (P # <<>> \/ L # <<>>)
                  /\ targetGetter(Cur, c, n, L) =
                        (IF P # <<>> THEN P[1]
                         ELSE IF L # <<>> THEN L[1] ELSE MissingTarget)
                  /\ targetsGetter(Cur, c, n, L) = P \o L

\* C20 witness: c1 is registered and the target index holds e1 under
\* (a, content), delivered to c1.
C20_Witness ==
    /\ "c1" \in controllers["a"]
    /\ targetsByTargetName["a"]["content"] = {"e1"}
    /\ "e1" \in targetsByController["c1"]

\* The attributes of element e that fit data-<id>-<name>-param, as the
\* positions they have among the "-param" attributes of e.
ParamsOf(e, id) ==
    {i \in 1..Len(dattr[e]) :
        \E n \in ParamNames : dattr[e][i].name = getParamAttributeName(id, n)}

\* The name part of such an attribute.
ParamNameAt(e, id, i) ==
    CHOOSE n \in ParamNames : dattr[e][i].name = getParamAttributeName(id, n)

\* The value the claim gives an attribute text: the JSON value when the text
\* is JSON, the text itself otherwise.
StructuredOrRaw(text) ==
    IF text \in JSONTexts THEN [type |-> "number", value |-> text]
    ELSE [type |-> "string", value |-> text]

\* C21 as stated: whenever a forwarding handler dispatches to identifier id,
\* event.params has exactly one entry per attribute of the element that fits
\* data-<id>-<name>-param, under the key camelCase(name), holding the JSON
\* value of the attribute's text when it is JSON and the text otherwise.
C21_OneEntryPerParamAttribute ==
    \A k \in 1..Len(eventParams) :
        LET ep == eventParams[k]
            own == ParamsOf(ep.target, ep.identifier)
        IN /\ Cardinality(DOMAIN ep.params) = Cardinality(own)
           /\ \A i \in own :
                 LET key == camelCase(ParamNameAt(ep.target, ep.identifier, i))
                 IN /\ key \in DOMAIN ep.params
                    /\ ep.params[key] =
                          StructuredOrRaw(dattr[ep.target][i].value)

\* C21 as amended: event.params has one entry per distinct key
\* camelCase(name) of the attributes that fit data-<id>-<name>-param, and the
\* entry holds the value (JSON when the text is JSON, the text otherwise) of
\* the last of the attributes with that key; attributes that do not fit the
\* pattern of id add nothing.
C21_OneEntryPerParamKey ==
    \A k \in 1..Len(eventParams) :
        LET ep == eventParams[k]
            e == ep.target
            own == ParamsOf(e, ep.identifier)
            KeyAt(i) == camelCase(ParamNameAt(e, ep.identifier, i))
        IN /\ DOMAIN ep.params = {KeyAt(i) : i \in own}
           /\ \A i \in own :
                 (\A j \in own : j > i => KeyAt(j) # KeyAt(i)) =>
                     ep.params[KeyAt(i)] = StructuredOrRaw(dattr[e][i].value)

\* C21 witness: a click on e1 was dispatched to a and to b, e1 carrying a
\* JSON parameter of a and a parameter of b.
C21_Witness ==
    /\ Len(eventParams) = 2
    /\ eventParams[1].identifier = "a" /\ eventParams[2].identifier = "b"
    /\ Len(dattr["e1"]) = 2
    /\ dattr["e1"][1] = [name |-> "data-a-item-id-param", value |-> "42"]
    /\ dattr["e1"][2].name = "data-b-id-param"
    /\ hooks # <<>>

\* Whether instance c is registered in relay o, in state r.
Registered(r, o, c) ==
    IF o = ThisRelay THEN c \in r.controllers[IdOf[c]]
    ELSE c \in r.other.controllers[IdOf[c]]

Polling(p) == p.state = "pending" /\ p.armed

\* C23: the promise of getControllerAsync is never rejected, is never pending
\* without a poll scheduled, and is resolved with null only once the timeout
\* has elapsed.
C23_GetControllerAsyncSettlesWithoutRejecting ==
    LET p == lookup.inner
    IN /\ p.state # "rejected"
       /\ p.state = "pending" => p.armed
       /\ (p.state = "resolved" /\ p.value = "null") =>
             lookup.now - p.startTime >= p.timeout

\* C24: the promise Resolvable.getAsync returned is never rejected, is never
\* pending without a poll scheduled that can settle it, and is resolved with
\* null only once the timeout has elapsed.
C24_GetAsyncSettlesWithoutRejecting ==
    LET p == lookup.outer
    IN /\ p.state # "rejected"
       /\ p.state = "pending" =>
             \/ p.armed
             \/ p.mode \in {"same", "await"} /\ Polling(lookup.inner)
       /\ (p.state = "resolved" /\ p.value = "null") =>
             lookup.now - p.startTime >= p.timeout

\* The same two statements for the body of part_003 alone.
C23_HoldsOfPart003 ==
    lookup.version = "part_003" => C23_GetControllerAsyncSettlesWithoutRejecting

C24_HoldsOfPart003 ==
    lookup.version = "part_003" => C24_GetAsyncSettlesWithoutRejecting

\* The owned identifiers the target sweep has not covered yet.
Unswept == {id \in SeqToSet(identifiers) : id \notin searchedIdentifiersForTargets}

\* C25: when the target sweep runs on a connected relay with two or more
\* owned identifiers not swept yet, every element of the subtree that carries
\* the target attribute of one of them is afterwards in the target index
\* under that identifier and among the targets delivered to each of the
\* identifier's instances.
C25_SweepOfSeveralIdentifiersBindsEach ==
    (isConnected /\ Cardinality(Unswept) >= 2) =>
        LET r == searchTargets(Cur)
        IN \A id \in Unswept, e \in inDoc :
              tattr[e][id] # NoName =>
                  /\ e \in r.targetsByIdentifier[id]
                  /\ e \in r.targetsByTargetName[id][tattr[e][id]]
                  /\ \A c \in controllers[id] : e \in r.targetsByController[c]

\* C26: whenever the observer observes, its attribute filter is the action
\* attribute together with data-<id>-target of exactly the owned identifiers.
C26_FilterFollowsOwnedIdentifiers ==
    observer = "on" =>
        filter = {getActionAttributeName} \cup
                     {getTargetAttributeName(id) : id \in SeqToSet(identifiers)}

\* The same for a connected relay only.
C26_FilterOfConnectedRelay == isConnected => C26_FilterFollowsOwnedIdentifiers

\* C27: the sweep triggers of one tick (connect() and then sync(c), or
\* sync(c) and then sync(d), whatever time the tick takes between the two)
\* run the target sweep at most once and the action sweep at most once within
\* that tick.  The tick starts with no trailing timer armed.
C27_OneSweepPerTick ==
    (throttleT # "scheduled" /\ throttleA # "scheduled") =>
        \A slow \in BOOLEAN :
            \A c \in {"c1", "c2"} :
                LET first == IF isConnected THEN sync(Cur, c) ELSE connect(Cur)
                    second == sync(IF slow THEN elapse(first) ELSE first,
                                   IF isConnected
                                   THEN CHOOSE d \in {"c1", "c2"} : d # c
                                   ELSE c)
                IN (~first.thrown /\ ~second.thrown) =>
                      second.ran.targets <= 1 /\ second.ran.actions <= 1

\* The directives of identifier id that element e carries, on either
\* attribute.
DirectivesOf(e, id) ==
    {d \in Directives :
        /\ InSeq(d, vattr[e] \o pattr[e])
        /\ parseActionToken(d).identifier = id}

\* C28, its second half: on a connected relay, once the target sweep and the
\* action sweep have covered the identifier of a registered instance, every
\* element of the subtree that carries the identifier's target attribute has
\* been delivered to the instance and every directive of the identifier in
\* the subtree is forwarded.
C28_SweptMeansDeliveredAndForwarded ==
    \A c \in Ctrls :
        LET id == IdOf[c]
        IN (/\ isConnected
            /\ c \in controllers[id]
            /\ id \in searchedIdentifiersForTargets
            /\ id \in searchedIdentifiersForActions) =>
               \A e \in inDoc :
                  /\ tattr[e][id] # NoName => e \in targetsByController[c]
                  /\ \A d \in DirectivesOf(e, id) : Forwarded(Cur, e, d)

\* C28, its first half, as what keeps the sweeps coming: on a connected
\* relay an owned identifier that a sweep has not covered yet has the
\* trailing timer of that sweep armed.
C28_SweepIsOnItsWay ==
    \A id \in Owned :
        isConnected =>
            /\ id \notin searchedIdentifiersForTargets => throttleT = "scheduled"
            /\ id \notin searchedIdentifiersForActions => throttleA = "scheduled"

\* The k-th record of the queued batch is a change of data-<id>-target from
\* one name to another, as handleMutations sees it when it comes to it.
IsRebind(before, rec, id) ==
    /\ rec.type = "attributes"
    /\ rec.attributeName = getTargetAttributeName(id)
    /\ rec.oldName # NoName
    /\ before.tattr[rec.target][id] # NoName
    /\ before.tattr[rec.target][id] # rec.oldName

\* C29: when the delivery comes to a record that changed data-<id>-target of
\* a bound element from name o to another name n, the element is afterwards
\* recorded under (id, n) and not under (id, o), the per-identifier set and
\* the instances' notified sets are as before, no hook is called and no
\* forwarding handler appears or disappears.
C29_RebindMovesNameOnly ==
    \A k \in 1..Len(pending) :
        LET rec == pending[k]
            e == rec.target
            before == [HandleMutationsLoop([Cur EXCEPT !.pending = <<>>],
                                           SubSeq(pending, 1, k - 1))
                         EXCEPT !.hooks = <<>>]
            after == HandleMutation(before, rec)
        IN \A id \in SeqToSet(before.identifiers) :
              (IsRebind(before, rec, id) /\ e \in before.targetsByIdentifier[id]) =>
                  /\ e \in after.targetsByTargetName[id][before.tattr[e][id]]
                  /\ e \notin after.targetsByTargetName[id][rec.oldName]
                  /\ after.targetsByIdentifier = before.targetsByIdentifier
                  /\ after.targetsByController = before.targetsByController
                  /\ after.hooks = <<>>
                  /\ after.proxyMethods = before.proxyMethods

\* C29 witness: the batch about to be delivered holds the change of
\* data-a-target of e1 from content to side-bar; e1 is in the subtree, bound
\* under (a, content) and delivered to c1 and c2.
C29_Witness ==
    /\ pending = <<TargetAttrRecord("e1", "a", "content")>>
    /\ tattr["e1"]["a"] = "side-bar"
    /\ "e1" \in inDoc
    /\ "e1" \in targetsByTargetName["a"]["content"]
    /\ "e1" \in targetsByController["c1"] \cap targetsByController["c2"]

\* C30: a change of the document made before a sync is not lost when the
\* sync re-creates the observer: once the connected relay has nothing left
\* to do, every element of the subtree that carries the target attribute of
\* an owned identifier is bound under it and delivered to its instances.
\* (The document only grows, one identifier is owned and nobody is unsynced:
\* nothing else can leave an element unbound.)
C30_NoChangeLostByNewObserver ==
    Settled =>
        \A e \in inDoc, id \in Owned :
            tattr[e][id] # NoName =>
                /\ e \in targetsByIdentifier[id]
                /\ \A c \in controllers[id] : e \in targetsByController[c]

\* What sync does with a waiting batch (lines 95 and 132, 157): in every
\* state of SpecGrow with records queued, the queue is empty after the call.
C30_RecordsDroppedBySync ==
    \A c \in {"c1", "c2"} :
        (isConnected /\ pending # <<>> /\ c \notin controllerOriginalMethods) =>
            sync(Cur, c).pending = <<>>

\* The observer's callback, called again while the relay's own writes leave
\* records queued, at most `rounds` times.
RECURSIVE Drain(_, _)
Drain(r, rounds) ==
    IF r.pending = <<>> \/ rounds = 0 THEN r
    ELSE Drain(handleMutations(r), rounds - 1)

\* The deliveries one change is followed through.
MaxRounds == 2

\* What the author may write over an action attribute.
Rewritten ==
    {<<>>, <<"click->a#x">>, <<"click->b#y">>, <<"keyup->a#y">>, <<"click->z#x">>}

\* C31: when the author rewrites the action attribute of an element of the
\* settled relay's subtree on which the owned directive d is forwarded, to a
\* value that declares neither d nor another directive of d's method, then
\* once the records are processed d is off the portalled attribute, its proxy
\* token is off the action attribute and a dispatch of d's event calls d's
\* method on no instance.
C31_RewriteStopsForwarding ==
    \A e \in inDoc, d \in Directives, v \in Rewritten :
        LET action == parseActionToken(d)
            after == Drain(setActionAttribute(Cur, e, v), MaxRounds)
            called == dispatch([after EXCEPT !.hooks = <<>>], e,
                               action.event).hooks
        IN (/\ Settled
            /\ action.identifier \in Owned
            /\ Forwarded(Cur, e, d)
            /\ \A i \in 1..Len(v) : parseActionToken(v[i]).method # action.method)
           => /\ after.pending = <<>>
              /\ ~InSeq(d, after.pattr[e])
              /\ ~InSeq(toString(toProxyAction(action)), after.vattr[e])
              /\ \A c \in Ctrls : Count(called, c, action.method, e) = 0

\* The same when the author erases the action attribute (line 192).
C31_EraseStopsForwarding ==
    \A e \in inDoc, d \in Directives :
        LET action == parseActionToken(d)
            after == Drain(setActionAttribute(Cur, e, <<>>), MaxRounds)
            called == dispatch([after EXCEPT !.hooks = <<>>], e,
                               action.event).hooks
        IN (Settled /\ action.identifier \in Owned /\ Forwarded(Cur, e, d))
           => /\ after.pending = <<>>
              /\ after.pattr[e] = <<>>
              /\ after.vattr[e] = <<>>
              /\ called = <<>>

\* C32: on an element of the settled relay's subtree on which the directive
\* ev->id#m of an owned identifier is forwarded, with one token of the relay
\* for ev and m on the action attribute, a dispatch of ev calls m once on
\* every instance of id and calls no other instance, whatever other
\* directives of method m the element carries.
C32_OnlyTheDirectivesInstancesAreCalled ==
    \A e \in inDoc, d \in Directives :
        LET action == parseActionToken(d)
            called == dispatch(Cur, e, action.event).hooks
        IN (/\ Settled
            /\ action.identifier \in Owned
            /\ Forwarded(Cur, e, d)
            /\ Occurrences(vattr[e], toString(toProxyAction(action))) = 1)
           => \A c \in Ctrls :
                 Count(called, c, action.method, e) =
                     (IF c \in controllers[action.identifier] THEN 1 ELSE 0)

\* The same on an element that carries no other directive of method m.
C32_HoldsOfTheOnlyDirectiveOfItsMethod ==
    \A e \in inDoc, d \in Directives :
        LET action == parseActionToken(d)
            called == dispatch(Cur, e, action.event).hooks
        IN (/\ Settled
            /\ action.identifier \in Owned
            /\ Forwarded(Cur, e, d)
            /\ Occurrences(vattr[e], toString(toProxyAction(action))) = 1
            /\ \A id \in Ids : CarriedNow(Cur, e, id, action.method) =
                                   (IF id = action.identifier THEN 1 ELSE 0))
           => \A c \in Ctrls :
                 Count(called, c, action.method, e) =
                     (IF c \in controllers[action.identifier] THEN 1 ELSE 0)

\* C33: over any sequence of connect, disconnect, sync, unsync and delivered
\* records, the <name>TargetConnected and <name>TargetDisconnected calls an
\* instance receives for an element alternate, a TargetConnected call first.
C33_HooksAlternate == told.tracked => told.balanced

\* C34: every <name>TargetDisconnected call an instance receives for an
\* element has the target name of the last <name>TargetConnected call the
\* instance received for that element.
C34_DisconnectedHookHasConnectedName == told.tracked => told.paired

\* C35: from the return of unsync(c) until c is synced again, and for every
\* instance from the return of disconnect(), the relay calls no target hook
\* and no action method on the instance: every call made so far, by a
\* delivery, a sweep, a user event, sync or disconnect(), was made on an
\* instance that was synced and had not left since.
C35_NoCallAfterLeaving == told.tracked => told.quiet

\* C35 witness: c1 received a hook for e1 and has left since; the last step
\* called c2, which is synced, and not c1.
C35_Witness ==
    /\ told.tracked
    /\ told.last["c1"]["e1"].kind = "connected"
    /\ "c1" \notin told.synced
    /\ "c2" \in told.synced
    /\ hooks # <<>>
    /\ \A i \in 1..Len(hooks) : hooks[i].controller = "c2"

\* C36: while the relay is not connected (before the first connect() and
\* after disconnect()), whatever sync and unsync calls were made, its observer
\* does not observe and no record waits for it.
C36_ObserverOnlyWhileConnected ==
    ~isConnected => (observer # "on" /\ pending = <<>>)

\* ... and so no target is in the index and no instance has been told of one.
C36_NothingBoundWhileNotConnected ==
    ~isConnected =>
        /\ targetsByIdentifier = EmptyIndex.targetsByIdentifier
        /\ targetsByController = EmptyIndex.targetsByController

\* The observer of a relay on which unsync has not been called.
C36_HoldsWithoutUnsync ==
    ~isConnected => observer # "on"

\* What the relay holds for element e in state r, and what the step that led
\* to r called for it.
Bound(r, e) ==
    [byIdentifier |-> {id \in Ids : e \in r.targetsByIdentifier[id]},
     byName |-> {<<id, n>> \in Ids \X Names : e \in r.targetsByTargetName[id][n]},
     delivered |-> {c \in Ctrls : e \in r.targetsByController[c]},
     recorded |-> r.elementToActionsMap[e],
     vattr |-> r.vattr[e],
     pattr |-> r.pattr[e],
     called |-> SelectSeq(r.hooks, LAMBDA call : call.element = e)]

\* C37: when an element is inserted into the settled relay's subtree with a
\* descendant below it, or removed with it, the descendant is bound and
\* forwarded, or unbound and un-forwarded, as it is when the descendant alone
\* is inserted or removed.
C37_DescendantsAreTreatedAsRoots ==
    \A root \in Elems : \A e \in Descendants[root] :
        /\ (Settled /\ root \notin inDoc /\ e \notin inDoc) =>
              Bound(Drain(insertSubtree(Cur, root), MaxRounds), e)
                  = Bound(Drain(insertElement(Cur, e), MaxRounds), e)
        /\ (Settled /\ root \in inDoc /\ e \in inDoc) =>
              Bound(Drain(removeSubtree(Cur, root), MaxRounds), e)
                  = Bound(Drain(removeElement(Cur, e), MaxRounds), e)

\* The same of the root itself.
C37_HoldsOfTheRoot ==
    \A root \in Elems :
        /\ (Settled /\ root \notin inDoc) =>
              Bound(Drain(insertSubtree(Cur, root), MaxRounds), root)
                  = Bound(Drain(insertElement(Cur, root), MaxRounds), root)
        /\ (Settled /\ root \in inDoc) =>
              Bound(Drain(removeSubtree(Cur, root), MaxRounds), root)
                  = Bound(Drain(removeElement(Cur, root), MaxRounds), root)

\* What the code leaves of an inserted descendant: with the relay settled
\* again, e2 of the subtree carries data-a-target and is bound nowhere.
C37_InsertedDescendantIsBound ==
    (Settled /\ "a" \in Owned /\ "e2" \in inDoc) =>
        "e2" \in targetsByIdentifier["a"]

\* C38: addActionElement run a second time on an element it has just
\* processed changes nothing: not the two action attributes of the element,
\* not the action index, not the handlers; and so the records of the relay's
\* own writes are used up after at most MaxRounds deliveries, with no record
\* left waiting.
C38_AddActionElementIsAFixpoint ==
    /\ \A e \in Elems :
          LET once == addActionElement(Cur, e)
          IN addActionElement(once, e) = once
    /\ Drain(Cur, MaxRounds).pending = <<>>

\* C38 witness: the relay has forwarded the directives of an element and the
\* record of its own write of the action attribute waits to be delivered.
C38_Witness ==
    \E i \in 1..Len(pending) :
        LET record == pending[i]
            e == record.target
        IN /\ record.attributeName = getActionAttributeName
           /\ pattr[e] # <<>>
           /\ record.oldTokens = pattr[e]
           /\ vattr[e] = [j \in 1..Len(pattr[e]) |->
                             toString(toProxyAction(parseActionToken(pattr[e][j])))]

\* The calls of h on instance c for element e.
CallsOn(h, c, e) ==
    Cardinality({i \in 1..Len(h) : h[i].controller = c /\ h[i].element = e})

\* C39: when addTarget calls the TargetConnected hook of an instance whose
\* hooks throw, the element is marked as delivered to the instance all the
\* same: a second addTarget for the pair calls the instance no more, and a
\* removeTarget for the element calls the instance's TargetDisconnected hook
\* once; and when that hook throws the mark is cleared all the same.
C39_ThrowingHookStillMarksAndClears ==
    \A c \in throwing, e \in Elems :
        LET id == IdOf[c]
            n == tattr[e][id]
            added == addTargetFor(Cur, e, id)
            again == addTargetFor([added EXCEPT !.hooks = <<>>], e, id)
            removed == removeTargetFor([added EXCEPT !.hooks = <<>>], e, id)
        IN (/\ c \in controllers[id]
            /\ n # NoName
            /\ e \notin targetsByController[c])
           => /\ Count(added.hooks, c, getTargetConnectedMethodName(n), e) = 1
              /\ added.errors >= 1
              /\ e \in added.targetsByController[c]
              /\ CallsOn(again.hooks, c, e) = 0
              /\ Count(removed.hooks, c, getTargetDisconnectedMethodName(n), e) = 1
              /\ CallsOn(removed.hooks, c, e) = 1
              /\ e \notin removed.targetsByController[c]
              /\ CallsOn(removeTargetFor([removed EXCEPT !.hooks = <<>>], e, id).hooks,
                         c, e) = 0

\* C39 witness: the TargetConnected hook of c1 threw for e1 in the last step,
\* and e1 is marked as delivered to c1.
C39_Witness ==
    /\ throwing = {"c1"}
    /\ errors >= 1
    /\ Count(hooks, "c1", getTargetConnectedMethodName("content"), "e1") = 1
    /\ "e1" \in targetsByController["c1"]

====
